---- MODULE Spec2Model ----
(***************************************************************************)
(* Model of canary-ng: main (NewConfig, the loop over the jobs, the        *)
(* listener), job expansion (NewJobs / NewJob), the measurement cycle      *)
(* (Job.Measure / Job.Run) and the Prometheus metrics sink.                *)
(*                                                                         *)
(* Go strings that are concatenated (job name, hosts, separator) are       *)
(* modelled as sequences of tokens, "" being << >>; strings that are only  *)
(* compared (type, scheme, dsn, ...) are TLA+ strings.                     *)
(***************************************************************************)
EXTENDS Integers, Sequences, FiniteSets, TLC

VARIABLES
    cfg,        \* the caller's JobConfig (main's jobConfig)
    gcfg,       \* the global Config fields: JobLabelName, QueryLabels
    env,        \* the outside world: discovery backend answer, DNS answers
    mainpc,     \* position of main: "boot", "start" (about to call NewJobs),
                \* "expanded", "reexpanded", "running" (loop over),
                \* "serving", or one of ExitStates
    file,       \* the configuration file: readable, log settings, JobConfigs
    todo,       \* the JobConfigs main's range loop has still to visit
    hist,       \* one record per JobConfig the loop has dealt with
    rerun,      \* result of a second NewJobs call with the same JobConfig
    jobs,       \* the Jobs returned by NewJobs so far
    err,        \* the error returned by NewJobs
    trace,      \* what NewJobs did: discovery calls, dsn test, probes built
    sink,       \* the Metrics: duration / failures / jobs / queries vectors
    pc,         \* per Job: position of its Run loop
    calls,      \* per Job: probe operations invoked in the current cycle
    cyc,        \* per Job: counter increments and observations of the cycle
    done,       \* per Job: completed cycles, successful cycles, IncrFailures calls,
                \* counter increments issued that returned
    crashed,    \* the process died of an unrecovered panic
    consul,     \* a Consul discovery: its options, the catalog answers, its result
    probe       \* a probe on its own: its options, the store it talks to, the
                \* statements and the result of its last operation

vars == <<cfg, gcfg, env, mainpc, file, todo, hist, rerun, jobs, err, trace, sink,
          pc, calls, cyc, done, crashed, consul, probe>>

----------------------------------------------------------------------------
(* Bounds *)

MaxHosts == 2
MaxCycles == 2

----------------------------------------------------------------------------
(* Constants of job.go *)

JOB_INTERVAL == 1
JOB_NAME_SEPARATOR == <<"/">>
JOB_TYPE_CLICKHOUSE == "clickhouse"
JOB_TYPE_MONGODB == "mongodb"
JOB_TYPE_MYSQL == "mysql"
JOB_TYPE_POSTGRESQL == "postgresql"
JOB_TYPE_VALKEY == "valkey"
QUERY_TYPE_CONNECT == "connect"
QUERY_TYPE_READ == "read"
QUERY_TYPE_WRITE == "write"
QUERY_TYPE_READ_WRITE == "read_write"
QUERY_TYPE_DISCONNECT == "disconnect"
DISCOVER_TYPE_CONSUL == "consul"

Nil == "nil"

----------------------------------------------------------------------------
(* strings.Join over token-sequence strings *)

RECURSIVE Join(_, _)
Join(elems, sep) ==
    IF Len(elems) = 0 THEN << >>
    ELSE IF Len(elems) = 1 THEN elems[1]
    ELSE elems[1] \o sep \o Join(Tail(elems), sep)

(* AddHostPrefix: the separator is always JOB_NAME_SEPARATOR *)

\* AddHostPrefix that never prefixes
AddHostPrefixNever(config) == config.Name

AddHostPrefix(config) ==
    IF ~config.PrefixNameWithHost THEN config.Name
    ELSE LET separator == JOB_NAME_SEPARATOR
         IN Join(<<Join(config.Hosts, separator), config.Name>>, separator)

----------------------------------------------------------------------------
(* Outside world *)

\* net.ParseIP(host) != nil
IPLiterals == {<<"10.0.0.1">>, <<"10.0.0.2">>, <<"10.0.0.5">>}
ParseIP(host) == host \in IPLiterals

\* strconv.Atoi succeeds
Atoi(s) == s \in {"0", "1"}

----------------------------------------------------------------------------
(* Driver constructors: the option checks each one makes.  A driver is     *)
(* the record of the options it was handed.                                *)

NoDriver == [type |-> "none"]

TIMEOUT == 3

\* if opts.Timeout == 0 { opts.Timeout = TIMEOUT }
OptsTimeout(opts) == IF opts.Timeout = 0 THEN TIMEOUT ELSE opts.Timeout

NewClickhouse(opts) ==
    IF opts.Table = "" THEN [d |-> NoDriver, err |-> "table name is required"]
    ELSE [d |-> [type |-> JOB_TYPE_CLICKHOUSE, hosts |-> opts.Hosts, dsn |-> opts.DSN,
                 timeout |-> OptsTimeout(opts)],
          err |-> Nil]

NewMongodb(opts) ==
    IF opts.Database = "" THEN [d |-> NoDriver, err |-> "database name is required"]
    ELSE IF opts.Collection = "" THEN [d |-> NoDriver, err |-> "collection name is required"]
    ELSE IF opts.DSN = "" /\ Len(opts.Hosts) = 0
         THEN [d |-> NoDriver, err |-> "invalid mongodb hosts"]
    ELSE [d |-> [type |-> JOB_TYPE_MONGODB, hosts |-> opts.Hosts, dsn |-> opts.DSN,
                 timeout |-> OptsTimeout(opts)],
          err |-> Nil]

NewMysql(opts) ==
    IF opts.Table = "" THEN [d |-> NoDriver, err |-> "table name is required"]
    ELSE [d |-> [type |-> JOB_TYPE_MYSQL,
                 hosts |-> IF opts.Host = << >> THEN << >> ELSE <<opts.Host>>,
                 dsn |-> opts.DSN, timeout |-> OptsTimeout(opts)],
          err |-> Nil]

NewPostgresql(opts) ==
    IF opts.Table = "" THEN [d |-> NoDriver, err |-> "table name is required"]
    ELSE [d |-> [type |-> JOB_TYPE_POSTGRESQL, hosts |-> opts.Hosts, dsn |-> opts.DSN,
                 timeout |-> OptsTimeout(opts)],
          err |-> Nil]

NewValkey(opts) ==
    IF opts.Key = "" THEN [d |-> NoDriver, err |-> "key is required"]
    ELSE [d |-> [type |-> JOB_TYPE_VALKEY, hosts |-> opts.Hosts, dsn |-> opts.DSN,
                 timeout |-> OptsTimeout(opts)],
          err |-> Nil]

----------------------------------------------------------------------------
(* The SQL drivers: Read, Write, insert and createTable against a store.   *)
(* A store is [table, row]: the table exists, the row of id 1 exists.  A  *)
(* run is [db, log, faults, err]: the store, the statements sent so far    *)
(* with their errors, for each statement to come whether the store fails   *)
(* it (connection lost, deadline passed), and the error of the last one.   *)

POSTGRESQL_TABLE_NOT_FOUND_ERROR_SUFFIX == "(SQLSTATE 42P01)"
POSTGRESQL_NO_ROWS_ERROR == "no rows in result set"
MYSQL_TABLE_NOT_FOUND_ERROR_PREFIX == "Error 1146 (42S02)"
CLICKHOUSE_TABLE_NOT_FOUND_ERROR_PREFIX == "code: 60,"

\* the error a store of that type gives a statement on a missing table
TableNotFoundError(type) ==
    CASE type = JOB_TYPE_MYSQL -> MYSQL_TABLE_NOT_FOUND_ERROR_PREFIX
      [] type = JOB_TYPE_CLICKHOUSE -> CLICKHOUSE_TABLE_NOT_FOUND_ERROR_PREFIX
      [] OTHER -> POSTGRESQL_TABLE_NOT_FOUND_ERROR_SUFFIX

\* the error of one statement: the fault when the store fails it, else what
\* the state of the store commands
StatementError(type, db, stmt, fault) ==
    IF fault THEN "connection lost"
    ELSE CASE stmt = "select" ->
                IF ~db.table THEN TableNotFoundError(type)
                ELSE IF ~db.row THEN POSTGRESQL_NO_ROWS_ERROR ELSE Nil
           [] stmt = "insert" -> IF ~db.table THEN TableNotFoundError(type) ELSE Nil
           [] OTHER ->
                IF db.table /\ type # JOB_TYPE_CLICKHOUSE THEN "table already exists"
                ELSE Nil

\* the store after a statement that returned e
StatementEffect(db, stmt, e) ==
    IF e # Nil THEN db
    ELSE CASE stmt = "insert" -> [db EXCEPT !.row = TRUE]
           [] stmt = "create" -> [db EXCEPT !.table = TRUE]
           [] OTHER -> db

\* conn.Exec / conn.QueryRow(...).Scan under a context with the timeout
Exec(type, run, stmt) ==
    LET k == Len(run.log) + 1
        e == StatementError(type, run.db, stmt, run.faults[k])
    IN [db |-> StatementEffect(run.db, stmt, e),
        log |-> Append(run.log, [stmt |-> stmt, err |-> e]),
        faults |-> run.faults,
        err |-> e]

\* err := p.insert()
\* if err != nil && HasSuffix(...) && p.opts.Create {
\*     if err = p.createTable(); err != nil { return err }
\*     return p.insert() }
\* return nil
PostgresqlWrite(opts, run) ==
    LET a == Exec(JOB_TYPE_POSTGRESQL, run, "insert")
    IN IF a.err # Nil /\ a.err = POSTGRESQL_TABLE_NOT_FOUND_ERROR_SUFFIX /\ opts.Create
       THEN LET b == Exec(JOB_TYPE_POSTGRESQL, a, "create")
            IN IF b.err # Nil THEN b ELSE Exec(JOB_TYPE_POSTGRESQL, b, "insert")
       ELSE [a EXCEPT !.err = Nil]

\* Read that returns the error of the select whatever the create option
PostgresqlReadNoCreate(opts, run) == Exec(JOB_TYPE_POSTGRESQL, run, "select")

\* err := p.conn.QueryRow(ctx, "SELECT ...").Scan(&ts)
\* if err != nil { if HasSuffix(...) && p.opts.Create { return p.Write() }
\*                 return err }
\* return nil
PostgresqlRead(opts, run) ==
    LET a == Exec(JOB_TYPE_POSTGRESQL, run, "select")
    IN IF a.err # Nil
       THEN IF a.err = POSTGRESQL_TABLE_NOT_FOUND_ERROR_SUFFIX /\ opts.Create
            THEN PostgresqlWrite(opts, a)
            ELSE a
       ELSE a

\* Mysql.Write: the statements of Postgresql.Write
MysqlWrite(opts, run) ==
    LET a == Exec(JOB_TYPE_MYSQL, run, "insert")
    IN IF a.err # Nil /\ a.err = MYSQL_TABLE_NOT_FOUND_ERROR_PREFIX /\ opts.Create
       THEN LET b == Exec(JOB_TYPE_MYSQL, a, "create")
            IN IF b.err # Nil THEN b ELSE Exec(JOB_TYPE_MYSQL, b, "insert")
       ELSE [a EXCEPT !.err = Nil]

\* Mysql.Read: the statements of Postgresql.Read
MysqlRead(opts, run) ==
    LET a == Exec(JOB_TYPE_MYSQL, run, "select")
    IN IF a.err # Nil
       THEN IF a.err = MYSQL_TABLE_NOT_FOUND_ERROR_PREFIX /\ opts.Create
            THEN MysqlWrite(opts, a)
            ELSE a
       ELSE a

\* err = c.insert()
\* if err != nil && HasPrefix(...) && c.opts.Create {
\*     if err = c.createTable(); err != nil { return err }
\*     return c.insert() }
\* return nil
ClickhouseWrite(opts, run) ==
    LET a == Exec(JOB_TYPE_CLICKHOUSE, run, "insert")
    IN IF a.err # Nil /\ a.err = CLICKHOUSE_TABLE_NOT_FOUND_ERROR_PREFIX /\ opts.Create
       THEN LET b == Exec(JOB_TYPE_CLICKHOUSE, a, "create")
            IN IF b.err # Nil THEN b ELSE Exec(JOB_TYPE_CLICKHOUSE, b, "insert")
       ELSE [a EXCEPT !.err = Nil]

\* if err = ...Scan(&ts); err != nil {
\*     if HasPrefix(...) && c.opts.Create {
\*         if err = c.Write(); err != nil { return err } }
\*     return err }
\* return nil
ClickhouseRead(opts, run) ==
    LET a == Exec(JOB_TYPE_CLICKHOUSE, run, "select")
    IN IF a.err # Nil
       THEN IF a.err = CLICKHOUSE_TABLE_NOT_FOUND_ERROR_PREFIX /\ opts.Create
            THEN ClickhouseWrite(opts, a)
            ELSE a
       ELSE a

\* the Read and the Write of the Driver interface
DriverRead(type, opts, run) ==
    CASE type = JOB_TYPE_MYSQL -> MysqlRead(opts, run)
      [] type = JOB_TYPE_CLICKHOUSE -> ClickhouseRead(opts, run)
      [] OTHER -> PostgresqlRead(opts, run)

DriverWrite(type, opts, run) ==
    CASE type = JOB_TYPE_MYSQL -> MysqlWrite(opts, run)
      [] type = JOB_TYPE_CLICKHOUSE -> ClickhouseWrite(opts, run)
      [] OTHER -> PostgresqlWrite(opts, run)

NoProbe == [type |-> "none"]

----------------------------------------------------------------------------
(* net/url on token-sequence strings, Postgresql.parseDSN and               *)
(* Mongodb.parseURI.  A URI is the sequence of its tokens: a scheme word,  *)
(* "://", user, ":", password, "@", host names, ":port" suffixes, ",",     *)
(* "/", path words, "?", query words, " ", and "%zz" (a percent sign that  *)
(* no two hexadecimal digits follow).                                       *)

SchemeWords == {"postgres", "postgresql", "POSTGRESQL", "mongodb", "mongodb+srv"}

PortTokens == {":5432", ":5433", ":27017"}

\* strings.ToLower on a scheme word
ToLower(w) == IF w = "POSTGRESQL" THEN "postgresql" ELSE w

\* the first and the last position of a token of T in s, 0 when there is none
FirstOf(s, T) ==
    LET K == {k \in 1..Len(s) : s[k] \in T}
    IN IF K = {} THEN 0 ELSE CHOOSE k \in K : \A m \in K : k <= m

LastOf(s, T) ==
    LET K == {k \in 1..Len(s) : s[k] \in T}
    IN IF K = {} THEN 0 ELSE CHOOSE k \in K : \A m \in K : k >= m

Has(s, T) == FirstOf(s, T) # 0

NoURL == [Scheme |-> "", User |-> << >>, Host |-> << >>, Path |-> << >>,
          RawQuery |-> << >>]

\* the first half of url.Parse: the scheme is cut off, the query is cut off
\* at the first "?" and kept raw, the authority of a URL with a scheme runs
\* to the first "/" and the path from there
UrlCut(s) ==
    LET hasScheme == Len(s) >= 2 /\ s[1] \in SchemeWords /\ s[2] = "://"
        rest0 == IF hasScheme THEN SubSeq(s, 3, Len(s)) ELSE s
        q == FirstOf(rest0, {"?"})
        rest == IF q = 0 THEN rest0 ELSE SubSeq(rest0, 1, q - 1)
        sl == FirstOf(rest, {"/"})
        segment == IF sl = 0 THEN rest ELSE SubSeq(rest, 1, sl - 1)
    IN [scheme |-> IF hasScheme THEN s[1] ELSE "",
        segment |-> segment,
        authority |-> IF hasScheme THEN segment ELSE << >>,
        path |-> IF ~hasScheme THEN rest
                 ELSE IF sl = 0 THEN << >> ELSE SubSeq(rest, sl, Len(rest)),
        rawQuery |-> IF q = 0 THEN << >> ELSE SubSeq(rest0, q + 1, Len(rest0))]

\* the second half of url.Parse: the scheme is lower-cased, the user
\* information runs to the last "@" of the authority; the host may hold
\* nothing after its last port and no space, the first path segment of a
\* URL without scheme may hold no colon, and the user information, the host
\* and the path are unescaped
UrlCheck(c) ==
    LET at == LastOf(c.authority, {"@"})
        user == IF at = 0 THEN << >> ELSE SubSeq(c.authority, 1, at - 1)
        host == SubSeq(c.authority, at + 1, Len(c.authority))
        port == LastOf(host, PortTokens)
    IN IF c.scheme = "" /\ Has(c.segment, PortTokens \cup {":"})
       THEN [err |-> "first path segment in URL cannot contain colon", url |-> NoURL]
       ELSE IF port # 0 /\ port # Len(host)
       THEN [err |-> "invalid port after host", url |-> NoURL]
       ELSE IF Has(host, {" "})
       THEN [err |-> "invalid character in host name", url |-> NoURL]
       ELSE IF Has(user \o host \o c.path, {"%zz"})
       THEN [err |-> "invalid URL escape", url |-> NoURL]
       ELSE [err |-> Nil,
             url |-> [Scheme |-> ToLower(c.scheme), User |-> user, Host |-> host,
                      Path |-> c.path, RawQuery |-> c.rawQuery]]

\* url.Parse
UrlParse(s) == CHOOSE u \in {UrlCheck(c) : c \in {UrlCut(s)}} : TRUE

\* URL.EscapedPath: a space of the path is written %20
EscapedPath(path) == [k \in 1..Len(path) |-> IF path[k] = " " THEN "%20" ELSE path[k]]

\* URL.String
UrlString(u) ==
    (IF u.Scheme = "" THEN << >>
     ELSE IF u.Host # << >> \/ u.Path # << >> \/ u.User # << >>
          THEN <<u.Scheme, "://">> ELSE <<u.Scheme, ":">>)
    \o (IF u.User = << >> THEN << >> ELSE u.User \o <<"@">>)
    \o u.Host
    \o EscapedPath(u.Path)
    \o (IF u.RawQuery = << >> THEN << >> ELSE <<"?">> \o u.RawQuery)

\* strings.Contains(h, ":") for a host
HasPort(h) == Has(h, PortTokens)

\* strings.Join(hosts, ",")
RECURSIVE JoinHosts(_)
JoinHosts(hosts) ==
    IF hosts = << >> THEN << >>
    ELSE IF Len(hosts) = 1 THEN hosts[1]
    ELSE hosts[1] \o <<",">> \o JoinHosts(Tail(hosts))

\* paramspec.Add("sslmode", p.opts.SSLMode); url.RawQuery = paramspec.Encode()
WithSSLMode(mode, r) ==
    IF r.err # Nil \/ mode = "" THEN r
    ELSE [r EXCEPT !.url.RawQuery = <<"sslmode=", mode>>]

\* the rest of parseDSN, after the test of the DSN: the URI
\* postgresql://[user[:password]@][hosts][/database][?sslmode=...]; the
\* port option is a ":port" token, << >> when it is 0
ParseDSNFromOptions(opts) ==
    LET userspec == IF opts.Username = << >> THEN << >>
                    ELSE opts.Username
                         \o (IF opts.Password = << >> THEN << >>
                             ELSE <<":">> \o opts.Password)
                         \o <<"@">>
        hosts == IF opts.Port = << >> THEN opts.Hosts
                 ELSE [k \in 1..Len(opts.Hosts) |->
                         IF HasPort(opts.Hosts[k]) THEN opts.Hosts[k]
                         ELSE opts.Hosts[k] \o opts.Port]
        dbname == IF opts.Database = << >> THEN << >> ELSE <<"/">> \o opts.Database
    IN WithSSLMode(opts.SSLMode,
                   UrlParse(<<"postgresql", "://">> \o userspec \o JoinHosts(hosts)
                            \o dbname))

\* Postgresql.parseDSN: url.Parse(DSN) when there is a DSN, else the URI
\* of the options
ParseDSN(opts) ==
    IF opts.DSN # << >> THEN UrlParse(opts.DSN)
    ELSE ParseDSNFromOptions(opts)

\* if err != nil { return nil, err }; the probe uses uri.String()
Stringify(r) ==
    IF r.err # Nil THEN [err |-> r.err, uri |-> << >>]
    ELSE [err |-> Nil, uri |-> UrlString(r.url)]

\* NewPostgresql: the table is required; p.opts.DSN = dsn.String()
PostgresqlURI(opts) ==
    IF opts.Table = "" THEN [err |-> "table name is required", uri |-> << >>]
    ELSE CHOOSE u \in {Stringify(r) : r \in {ParseDSN(opts)}} : TRUE

\* queryParams.Add("tls", "true") ...; url.RawQuery = queryParams.Encode()
WithTLS(tls, insecure, r) ==
    IF r.err # Nil THEN r
    ELSE [r EXCEPT !.url.RawQuery =
            IF ~tls THEN << >>
            ELSE IF insecure THEN <<"tls=true", "&", "tlsInsecure=true">>
                 ELSE <<"tls=true">>]

\* Mongodb.parseURI: url.Parse(DSN) when there is a DSN, else the URI
\* scheme://hosts/database[replicaSet][?tls=true[&tlsInsecure=true]]
ParseURI(opts) ==
    IF opts.DSN # << >> THEN UrlParse(opts.DSN)
    ELSE IF Len(opts.Hosts) = 0 THEN [err |-> "invalid mongodb hosts", url |-> NoURL]
    ELSE WithTLS(opts.TLS, opts.TLSInsecure,
                 UrlParse(<<(IF opts.Scheme # "" THEN opts.Scheme ELSE "mongodb"),
                            "://">> \o JoinHosts(opts.Hosts) \o <<"/">>
                          \o opts.Database \o opts.ReplicaSet))

\* NewMongodb: database and collection are required; Connect applies
\* m.uri.String()
MongodbURI(opts) ==
    IF opts.Database = << >> THEN [err |-> "database name is required", uri |-> << >>]
    ELSE IF opts.Collection = "" THEN [err |-> "collection name is required", uri |-> << >>]
    ELSE CHOOSE u \in {Stringify(r) : r \in {ParseURI(opts)}} : TRUE

----------------------------------------------------------------------------
(* NewJob *)

NoJob == [config |-> [Name |-> << >>], labels |-> << >>, driver |-> NoDriver]

\* l := copy of config.Labels; l[jobLabelName] = config.Name
JobLabels(config, jobLabelName) ==
    [k \in (DOMAIN config.Labels) \cup {jobLabelName} |->
        IF k = jobLabelName THEN config.Name ELSE config.Labels[k]]

\* the cache_hostnames loop: hosts that are not IP literals are replaced by
\* their addresses; nothing is appended for a host that is an IP literal
RECURSIVE ResolveHosts(_, _)
ResolveHosts(hs, dns) ==
    IF Len(hs) = 0 THEN [hosts |-> << >>, err |-> Nil, lookups |-> << >>]
    ELSE IF ParseIP(hs[1])
         THEN ResolveHosts(Tail(hs), dns)
         ELSE IF dns[hs[1]].err # Nil
              THEN [hosts |-> << >>, err |-> dns[hs[1]].err, lookups |-> <<hs[1]>>]
              ELSE LET rest == ResolveHosts(Tail(hs), dns)
                   IN IF rest.err # Nil
                      THEN [rest EXCEPT !.lookups = <<hs[1]>> \o @]
                      ELSE [hosts |-> dns[hs[1]].ips \o rest.hosts, err |-> Nil,
                            lookups |-> <<hs[1]>> \o rest.lookups]

\* the cache_hostnames block without the test of the scheme
CachedHostsAnyScheme(config, dns) ==
    IF config.CacheHostnames
    THEN ResolveHosts(config.Hosts, dns)
    ELSE [hosts |-> config.Hosts, err |-> Nil, lookups |-> << >>]

\* config.Hosts after the cache_hostnames block
CachedHosts(config, dns) ==
    IF config.CacheHostnames /\ config.Scheme # "mongodb+srv"
    THEN ResolveHosts(config.Hosts, dns)
    ELSE [hosts |-> config.Hosts, err |-> Nil, lookups |-> << >>]

\* the switch on config.Type with a default that builds a postgresql probe
NewDriverDefaultPostgresql(config) ==
    CASE config.Type = JOB_TYPE_CLICKHOUSE -> NewClickhouse(config)
      [] config.Type = JOB_TYPE_MONGODB -> NewMongodb(config)
      [] config.Type = JOB_TYPE_MYSQL ->
            IF Len(config.Hosts) = 1
            THEN NewMysql([config EXCEPT !.Host = config.Hosts[1]])
            ELSE IF Len(config.Hosts) > 0
                 THEN [d |-> NoDriver, err |-> "multiple hosts detected for mysql"]
                 ELSE NewMysql(config)
      [] config.Type = JOB_TYPE_VALKEY ->
            IF config.Database # "" /\ ~Atoi(config.Database)
            THEN [d |-> NoDriver, err |-> "invalid syntax"]
            ELSE NewValkey(config)
      [] OTHER -> NewPostgresql(config)

\* the switch on config.Type
NewDriver(config) ==
    CASE config.Type = JOB_TYPE_CLICKHOUSE -> NewClickhouse(config)
      [] config.Type = JOB_TYPE_MONGODB -> NewMongodb(config)
      [] config.Type = JOB_TYPE_MYSQL ->
            IF Len(config.Hosts) = 1
            THEN NewMysql([config EXCEPT !.Host = config.Hosts[1]])
            ELSE IF Len(config.Hosts) > 0
                 THEN [d |-> NoDriver, err |-> "multiple hosts detected for mysql"]
                 ELSE NewMysql(config)
      [] config.Type = JOB_TYPE_POSTGRESQL -> NewPostgresql(config)
      [] config.Type = JOB_TYPE_VALKEY ->
            IF config.Database # "" /\ ~Atoi(config.Database)
            THEN [d |-> NoDriver, err |-> "invalid syntax"]
            ELSE NewValkey(config)
      [] OTHER -> [d |-> NoDriver, err |-> "unsupported job type"]

\* the result of NewJob: the Job, the error, the probe a driver constructor
\* returned and the host names given to net.LookupIP
NewJob(config, jobLabelName, dns) ==
    IF jobLabelName = ""
    THEN [job |-> NoJob, err |-> "missing job label name", probes |-> << >>,
          lookups |-> << >>]
    ELSE LET l == JobLabels(config, jobLabelName)
             ch == CachedHosts(config, dns)
         IN IF ch.err # Nil
            THEN [job |-> NoJob, err |-> ch.err, probes |-> << >>,
                  lookups |-> ch.lookups]
            ELSE LET config2 == [config EXCEPT !.Hosts = ch.hosts]
                     nd == NewDriver(config2)
                 IN IF nd.err # Nil
                    THEN [job |-> NoJob, err |-> nd.err, probes |-> << >>,
                          lookups |-> ch.lookups]
                    ELSE [job |-> [config |-> [config2 EXCEPT !.Interval =
                                        IF @ = 0 THEN JOB_INTERVAL ELSE @],
                                   labels |-> l,
                                   driver |-> nd.d],
                          err |-> Nil,
                          probes |-> <<nd.d>>,
                          lookups |-> ch.lookups]

----------------------------------------------------------------------------
(* DiscoverHosts and NewJobs *)

\* DiscoverHosts: dispatch on the discovery type, then dh.Discover();
\* backend is the answer of the discovery backend
DiscoverHosts(config, backend) ==
    IF config.Type = DISCOVER_TYPE_CONSUL
    THEN IF backend.err # Nil
         THEN [hosts |-> << >>, err |-> backend.err, called |-> 1]
         ELSE [hosts |-> backend.hosts, err |-> Nil, called |-> 1]
    ELSE [hosts |-> << >>, err |-> "unsupported discovery type", called |-> 0]

\* the chain testing config.Hosts before config.Host
ResolveTargetsHostsFirst(config, backend) ==
    IF Len(config.Hosts) > 0
    THEN [hosts |-> config.Hosts, err |-> Nil, discoverCalls |-> 0,
          discoveryUsed |-> FALSE, dsnConsulted |-> FALSE]
    ELSE IF config.Host # << >>
    THEN [hosts |-> <<config.Host>>, err |-> Nil, discoverCalls |-> 0,
          discoveryUsed |-> FALSE, dsnConsulted |-> FALSE]
    ELSE IF config.HostsDiscovery.Type # ""
    THEN LET dh == DiscoverHosts(config.HostsDiscovery, backend)
         IN [hosts |-> dh.hosts,
             err |-> IF dh.err # Nil THEN dh.err
                     ELSE IF Len(dh.hosts) = 0 THEN "0 host found by discovery"
                     ELSE Nil,
             discoverCalls |-> dh.called,
             discoveryUsed |-> TRUE, dsnConsulted |-> FALSE]
    ELSE [hosts |-> << >>,
          err |-> IF config.DSN = ""
                  THEN "host, hosts, hosts_discovery or dsn required"
                  ELSE Nil,
          discoverCalls |-> 0, discoveryUsed |-> FALSE, dsnConsulted |-> TRUE]

\* the chain requiring a host, a host list or a discovery whatever the dsn
ResolveTargetsDsnIgnored(config, backend) ==
    IF config.Host # << >>
    THEN [hosts |-> <<config.Host>>, err |-> Nil, discoverCalls |-> 0,
          discoveryUsed |-> FALSE, dsnConsulted |-> FALSE]
    ELSE IF Len(config.Hosts) > 0
    THEN [hosts |-> config.Hosts, err |-> Nil, discoverCalls |-> 0,
          discoveryUsed |-> FALSE, dsnConsulted |-> FALSE]
    ELSE IF config.HostsDiscovery.Type # ""
    THEN LET dh == DiscoverHosts(config.HostsDiscovery, backend)
         IN [hosts |-> dh.hosts,
             err |-> IF dh.err # Nil THEN dh.err
                     ELSE IF Len(dh.hosts) = 0 THEN "0 host found by discovery"
                     ELSE Nil,
             discoverCalls |-> dh.called,
             discoveryUsed |-> TRUE, dsnConsulted |-> FALSE]
    ELSE [hosts |-> << >>,
          err |-> "host, hosts, hosts_discovery or dsn required",
          discoverCalls |-> 0, discoveryUsed |-> FALSE, dsnConsulted |-> TRUE]

\* the chain without the "0 host found by discovery" test
ResolveTargetsNoEmptyCheck(config, backend) ==
    IF config.Host # << >>
    THEN [hosts |-> <<config.Host>>, err |-> Nil, discoverCalls |-> 0,
          discoveryUsed |-> FALSE, dsnConsulted |-> FALSE]
    ELSE IF Len(config.Hosts) > 0
    THEN [hosts |-> config.Hosts, err |-> Nil, discoverCalls |-> 0,
          discoveryUsed |-> FALSE, dsnConsulted |-> FALSE]
    ELSE IF config.HostsDiscovery.Type # ""
    THEN LET dh == DiscoverHosts(config.HostsDiscovery, backend)
         IN [hosts |-> dh.hosts, err |-> dh.err,
             discoverCalls |-> dh.called,
             discoveryUsed |-> TRUE, dsnConsulted |-> FALSE]
    ELSE [hosts |-> << >>,
          err |-> IF config.DSN = ""
                  THEN "host, hosts, hosts_discovery or dsn required"
                  ELSE Nil,
          discoverCalls |-> 0, discoveryUsed |-> FALSE, dsnConsulted |-> TRUE]

\* the first if / else-if chain of NewJobs: the host set, the error, and
\* which of discovery and config.DSN the chain looked at
ResolveTargets(config, backend) ==
    IF config.Host # << >>
    THEN [hosts |-> <<config.Host>>, err |-> Nil, discoverCalls |-> 0,
          discoveryUsed |-> FALSE, dsnConsulted |-> FALSE]
    ELSE IF Len(config.Hosts) > 0
    THEN [hosts |-> config.Hosts, err |-> Nil, discoverCalls |-> 0,
          discoveryUsed |-> FALSE, dsnConsulted |-> FALSE]
    ELSE IF config.HostsDiscovery.Type # ""
    THEN LET dh == DiscoverHosts(config.HostsDiscovery, backend)
         IN [hosts |-> dh.hosts,
             err |-> IF dh.err # Nil THEN dh.err
                     ELSE IF Len(dh.hosts) = 0 THEN "0 host found by discovery"
                     ELSE Nil,
             discoverCalls |-> dh.called,
             discoveryUsed |-> TRUE, dsnConsulted |-> FALSE]
    ELSE [hosts |-> << >>,
          err |-> IF config.DSN = ""
                  THEN "host, hosts, hosts_discovery or dsn required"
                  ELSE Nil,
          discoverCalls |-> 0, discoveryUsed |-> FALSE, dsnConsulted |-> TRUE]

\* the per-host loop without "config.Name = name"
RestoreNameMissing(name, config) == config.Name

\* config.Name at the end of one iteration of the per-host loop
RestoreName(name, config) == name

\* config.Hosts for host h in the per-host loop
HostSlice(h) == <<h>>

\* the per-host loop with `return jobs, err` in the place of
\* `return nil, err`: the Jobs of the earlier hosts are returned
RECURSIVE PerHostPartial(_, _, _, _, _, _)
PerHostPartial(config, hosts, i, acc, jobLabelName, dns) ==
    IF i > Len(hosts)
    THEN [jobs |-> acc.jobs, err |-> Nil, probes |-> acc.probes,
          given |-> acc.given, lookups |-> acc.lookups, config |-> config]
    ELSE LET name == config.Name
             c1 == [config EXCEPT !.Hosts = HostSlice(hosts[i])]
             c2 == [c1 EXCEPT !.Name = AddHostPrefix(c1)]
             nj == NewJob(c2, jobLabelName, dns)
         IN IF nj.err # Nil
            THEN [jobs |-> acc.jobs, err |-> nj.err,
                  probes |-> acc.probes \o nj.probes,
                  given |-> Append(acc.given, c2),
                  lookups |-> acc.lookups \o nj.lookups, config |-> c2]
            ELSE PerHostPartial([c2 EXCEPT !.Name = RestoreName(name, c2)], hosts,
                                i + 1,
                                [jobs |-> Append(acc.jobs, nj.job),
                                 probes |-> acc.probes \o nj.probes,
                                 given |-> Append(acc.given, c2),
                                 lookups |-> acc.lookups \o nj.lookups],
                                jobLabelName, dns)

\* the per-host loop of NewJobs from index i on; config is the loop's
\* (mutated) copy of the JobConfig, acc the jobs and probes built so far
RECURSIVE PerHost(_, _, _, _, _, _)
PerHost(config, hosts, i, acc, jobLabelName, dns) ==
    IF i > Len(hosts)
    THEN [jobs |-> acc.jobs, err |-> Nil, probes |-> acc.probes,
          given |-> acc.given, lookups |-> acc.lookups, config |-> config]
    ELSE LET name == config.Name
             c1 == [config EXCEPT !.Hosts = HostSlice(hosts[i])]
             c2 == [c1 EXCEPT !.Name = AddHostPrefix(c1)]
             nj == NewJob(c2, jobLabelName, dns)
         IN IF nj.err # Nil
            THEN [jobs |-> << >>, err |-> nj.err,
                  probes |-> acc.probes \o nj.probes,
                  given |-> Append(acc.given, c2),
                  lookups |-> acc.lookups \o nj.lookups, config |-> c2]
            ELSE PerHost([c2 EXCEPT !.Name = RestoreName(name, c2)], hosts, i + 1,
                         [jobs |-> Append(acc.jobs, nj.job),
                          probes |-> acc.probes \o nj.probes,
                          given |-> Append(acc.given, c2),
                          lookups |-> acc.lookups \o nj.lookups],
                         jobLabelName, dns)

\* NewJobs: jobs and err are what it returns; given lists the JobConfigs
\* handed to NewJob, probes the drivers constructed, lookups the host names
\* resolved, config is the
\* function's own copy of the JobConfig when it returns
NewJobs(config, jobLabelName, world) ==
    LET rt == ResolveTargets(config, world.backend)
        t == [discoverCalls |-> rt.discoverCalls,
              discoveryUsed |-> rt.discoveryUsed,
              dsnConsulted |-> rt.dsnConsulted,
              hosts |-> rt.hosts]
    IN IF rt.err # Nil
       THEN t @@ [jobs |-> << >>, err |-> rt.err, probes |-> << >>,
                  given |-> << >>, lookups |-> << >>, config |-> config]
       ELSE IF config.JobPerHost /\ Len(rt.hosts) > 0
       THEN t @@ PerHost(config, rt.hosts, 1,
                         [jobs |-> << >>, probes |-> << >>, given |-> << >>,
                          lookups |-> << >>],
                         jobLabelName, world.dns)
       ELSE LET c1 == [config EXCEPT !.Hosts = rt.hosts]
                c2 == [c1 EXCEPT !.Name = AddHostPrefix(c1)]
                nj == NewJob(c2, jobLabelName, world.dns)
            IN t @@ [jobs |-> IF nj.err # Nil THEN << >> ELSE <<nj.job>>,
                     err |-> nj.err, probes |-> nj.probes,
                     given |-> <<c2>>, lookups |-> nj.lookups, config |-> c2]

\* NewJobs writing its host list through to the caller's JobConfig
CallerConfigHostsShared(callerCfg, calleeCfg) ==
    [callerCfg EXCEPT !.Hosts = calleeCfg.Hosts]

\* NewJobs working on the caller's JobConfig itself
CallerConfigShared(callerCfg, calleeCfg) == calleeCfg

\* what the caller's JobConfig is after the call: NewJobs takes it by value
CallerConfig(callerCfg, calleeCfg) == callerCfg

----------------------------------------------------------------------------
(* The metrics sink *)

\* NewMetrics: the label names each vector is declared with
MetricLabelNames(config) ==
    [duration |-> {config.JobLabelName, config.QueryLabels.Name},
     failures |-> {config.JobLabelName},
     jobs     |-> {config.JobLabelName},
     queries  |-> {config.JobLabelName}]

\* the vectors right after NewMetrics: no series yet
NewMetrics == [duration |-> << >>, failures |-> << >>, jobs |-> << >>, queries |-> << >>]

Val(vec, labels) == IF labels \in DOMAIN vec THEN vec[labels] ELSE 0

\* prometheus With(labels): accepted when the label names given are exactly
\* the names the vector was declared with, a panic otherwise
WithAccepts(config, metric, labels) ==
    DOMAIN labels = MetricLabelNames(config)[metric]

\* an Add(1) that stores 1 instead of adding to the value of the series
VecAddLost(st, config, metric, labels) ==
    IF st.crashed THEN st
    ELSE IF ~WithAccepts(config, metric, labels) THEN [st EXCEPT !.crashed = TRUE]
    ELSE [st EXCEPT !.sink[metric] =
            IF labels \in DOMAIN @ THEN [@ EXCEPT ![labels] = 1]
            ELSE @ @@ (labels :> 1)]

\* vec.With(labels).Add(1) / .Observe(d) on the state st = [sink, crashed];
\* nothing runs after a panic
VecAdd(st, config, metric, labels) ==
    IF st.crashed THEN st
    ELSE IF ~WithAccepts(config, metric, labels) THEN [st EXCEPT !.crashed = TRUE]
    ELSE [st EXCEPT !.sink[metric] =
            IF labels \in DOMAIN @ THEN [@ EXCEPT ![labels] = @ + 1]
            ELSE @ @@ (labels :> 1)]

IncrQueries(st, config, job) == VecAdd(st, config, "queries", job.labels)

IncrJobs(st, config, job) == VecAdd(st, config, "jobs", job.labels)

\* IncrFailures that leaves the job counter alone
IncrFailuresNoJobs(st, config, job) ==
    IncrQueries(VecAdd(st, config, "failures", job.labels), config, job)

IncrFailures(st, config, job) ==
    IncrJobs(IncrQueries(VecAdd(st, config, "failures", job.labels), config, job),
             config, job)

\* ObserveDuration with a default branch that observes under the
\* disconnect value
ObserveDurationAlways(st, config, job, queryType) ==
    LET ql == config.QueryLabels
        value == CASE queryType = QUERY_TYPE_CONNECT -> ql.ConnectValue
                   [] queryType = QUERY_TYPE_READ -> ql.ReadValue
                   [] queryType = QUERY_TYPE_WRITE -> ql.WriteValue
                   [] OTHER -> ql.DisconnectValue
    IN VecAdd(st, config, "duration",
              [k \in (DOMAIN job.labels) \cup {ql.Name} |->
                  IF k = ql.Name THEN value ELSE job.labels[k]])

\* the labels ObserveDuration builds, or no observation for an unknown phase
ObserveDuration(st, config, job, queryType) ==
    LET ql == config.QueryLabels
        known == {QUERY_TYPE_CONNECT, QUERY_TYPE_READ, QUERY_TYPE_WRITE,
                  QUERY_TYPE_DISCONNECT}
        value == CASE queryType = QUERY_TYPE_CONNECT -> ql.ConnectValue
                   [] queryType = QUERY_TYPE_READ -> ql.ReadValue
                   [] queryType = QUERY_TYPE_WRITE -> ql.WriteValue
                   [] OTHER -> ql.DisconnectValue
        labels == [k \in (DOMAIN job.labels) \cup {ql.Name} |->
                     IF k = ql.Name THEN value ELSE job.labels[k]]
    IN IF queryType \notin known THEN st
       ELSE VecAdd(st, config, "duration", labels)

\* EndMeasurement that forgets the query counter
EndMeasurementNoQuery(st, config, job, queryType) ==
    ObserveDuration(st, config, job, queryType)

EndMeasurement(st, config, job, queryType) ==
    IncrQueries(ObserveDuration(st, config, job, queryType), config, job)

----------------------------------------------------------------------------
(* discover.Consul *)

MaxNodes == 2

\* utils.In
In(list, x) == \E k \in 1..Len(list) : list[k] = x

\* NewConsul: return_metas when it is set, else return_meta when it is set
ReturnMetas(opts) ==
    IF Len(opts.ReturnMetas) > 0 THEN opts.ReturnMetas
    ELSE IF opts.ReturnMeta # "" THEN <<opts.ReturnMeta>>
    ELSE << >>

\* the loop over c.clients without its break: every client is queried, the
\* nodes are those of the last one
QueryCatalogNoBreak(answers) ==
    IF answers = << >> THEN [ok |-> FALSE, nodes |-> << >>, asked |-> 0]
    ELSE [ok |-> \E k \in 1..Len(answers) : answers[k].err = Nil,
          nodes |-> answers[Len(answers)].nodes, asked |-> Len(answers)]

\* the loop over c.clients: the nodes of the first catalog query that
\* succeeds, asked the number of clients queried
RECURSIVE QueryCatalog(_)
QueryCatalog(answers) ==
    IF answers = << >> THEN [ok |-> FALSE, nodes |-> << >>, asked |-> 0]
    ELSE IF Head(answers).err = Nil
         THEN [ok |-> TRUE, nodes |-> Head(answers).nodes, asked |-> 1]
         ELSE [QueryCatalog(Tail(answers)) EXCEPT !.asked = @ + 1]

\* a utils.In that finds nothing
AppendMetaAlways(hosts, meta) == Append(hosts, meta)

\* if ... !utils.In(hosts, meta) { hosts = append(hosts, meta) }
AppendMeta(hosts, meta) == IF In(hosts, meta) THEN hosts ELSE Append(hosts, meta)

\* the loop over c.returnMetas for one node
RECURSIVE NodeMetas(_, _, _)
NodeMetas(hosts, node, metas) ==
    IF metas = << >> THEN hosts
    ELSE NodeMetas(IF Head(metas) \in DOMAIN node.Meta
                   THEN AppendMeta(hosts, node.Meta[Head(metas)])
                   ELSE hosts,
                   node, Tail(metas))

\* the loop over the nodes
RECURSIVE CollectHosts(_, _, _)
CollectHosts(hosts, nodes, metas) ==
    IF nodes = << >> THEN hosts
    ELSE CollectHosts(IF Len(metas) > 0
                      THEN NodeMetas(hosts, Head(nodes), metas)
                      ELSE Append(hosts, Head(nodes).Address),
                      Tail(nodes), metas)

\* Consul.Discover for the returnMetas of NewConsul and the answers of the
\* catalog to each client in turn
ConsulDiscover(returnMetas, answers) ==
    LET q == QueryCatalog(answers)
    IN IF ~q.ok
       THEN [hosts |-> << >>, err |-> "all consul clients failed", asked |-> q.asked]
       ELSE [hosts |-> CollectHosts(<< >>, q.nodes, returnMetas), err |-> Nil,
             asked |-> q.asked]

NoConsul == [opts |-> [ReturnMeta |-> "", ReturnMetas |-> << >>], answers |-> << >>,
             hosts |-> << >>, err |-> Nil, called |-> FALSE, asked |-> 0]

----------------------------------------------------------------------------
(* Inputs *)

Name0 == <<"ping">>
HostNames == {<<"10.0.0.1">>, <<"db.internal">>}

RECURSIVE SeqsUpTo(_, _)
SeqsUpTo(S, n) ==
    IF n = 0 THEN {<< >>}
    ELSE LET shorter == SeqsUpTo(S, n - 1)
         IN shorter \cup {Append(q, x) : q \in {r \in shorter : Len(r) = n - 1}, x \in S}

\* the default Config of NewConfig, with the job label name as a parameter
GlobalConfig(jobLabelName) ==
    [JobLabelName |-> jobLabelName,
     QueryLabels |-> [Name |-> "query",
                      ConnectValue |-> QUERY_TYPE_CONNECT,
                      ReadValue |-> QUERY_TYPE_READ,
                      WriteValue |-> QUERY_TYPE_WRITE,
                      DisconnectValue |-> QUERY_TYPE_DISCONNECT]]

\* a JobConfig with every option of its store type set
BaseConfig ==
    [Name |-> Name0, Labels |-> << >>, Type |-> JOB_TYPE_POSTGRESQL, Interval |-> 0,
     DSN |-> "", Scheme |-> "", Host |-> << >>, Hosts |-> << >>,
     CacheHostnames |-> FALSE, HostsDiscovery |-> [Type |-> ""],
     JobPerHost |-> FALSE, PrefixNameWithHost |-> FALSE, NameSeparator |-> << >>,
     QueryType |-> QUERY_TYPE_READ_WRITE,
     Table |-> "t", Key |-> "k", Database |-> "0", Collection |-> "c",
     Timeout |-> 0]

UserLabels == {<< >>, ("env" :> <<"prod">>), ("query" :> <<"select">>)}

\* answers of the discovery backend
Backends ==
    {[err |-> "all consul clients failed", hosts |-> << >>]} \cup
    {[err |-> Nil, hosts |-> hs] : hs \in {<< >>, <<(<<"10.0.0.2">>)>>,
                                         <<(<<"10.0.0.2">>), (<<"db.internal">>)>>}}

\* answers of the resolver for the one host name
Resolvers ==
    {[h \in {<<"db.internal">>} |-> a] :
        a \in {[err |-> "no such host", ips |-> << >>],
               [err |-> Nil, ips |-> <<(<<"10.0.0.5">>)>>],
               [err |-> Nil, ips |-> <<(<<"10.0.0.5">>), (<<"10.0.0.6">>)>>]}}

World0 == [backend |-> [err |-> Nil, hosts |-> << >>],
           dns |-> [h \in {<<"db.internal">>} |-> [err |-> Nil, ips |-> <<(<<"10.0.0.5">>)>>]]]

NoTrace == [discoverCalls |-> 0, discoveryUsed |-> FALSE, dsnConsulted |-> FALSE,
            hosts |-> << >>, probes |-> << >>, given |-> << >>, lookups |-> << >>,
            called |-> FALSE,
            caller |-> BaseConfig]

\* the JobConfigs of the expansion specification
ExpandConfigs ==
    {[BaseConfig EXCEPT
        !.Host = h, !.Hosts = hs, !.HostsDiscovery = [Type |-> dt], !.DSN = dsn,
        !.JobPerHost = jph, !.PrefixNameWithHost = pfx, !.NameSeparator = sep,
        !.Labels = ul, !.Type = ty.type, !.Table = ty.table,
        !.CacheHostnames = ch.cache, !.Scheme = ch.scheme] :
        h \in {<< >>, <<"db.internal">>},
        hs \in SeqsUpTo(HostNames, MaxHosts),
        dt \in {"", DISCOVER_TYPE_CONSUL, "etcd"},
        dsn \in {"", "postgres://10.0.0.9/canary"},
        jph \in BOOLEAN, pfx \in BOOLEAN,
        sep \in {<< >>, <<"-">>},
        ul \in UserLabels,
        ty \in {[type |-> JOB_TYPE_POSTGRESQL, table |-> "t"],
                [type |-> JOB_TYPE_POSTGRESQL, table |-> ""],
                [type |-> JOB_TYPE_MYSQL, table |-> "t"],
                [type |-> JOB_TYPE_MONGODB, table |-> "t"],
                [type |-> "oracle", table |-> "t"]},
        ch \in {[cache |-> FALSE, scheme |-> ""],
                [cache |-> TRUE, scheme |-> ""],
                [cache |-> TRUE, scheme |-> "mongodb+srv"]}}

----------------------------------------------------------------------------
(* The caller: main's loop body for one JobConfig *)

\* the positions of main after an os.Exit(1)
ExitStates == {"exit_config", "exit_loglevel", "exit_logformat", "exit_nojob",
               "exit_listen"}

\* a configuration file holding the JobConfigs js and the default settings
FileOf(js) == [ok |-> TRUE, LogLevel |-> "warn", LogFormat |-> "text", Jobs |-> js]

NoRerun == [called |-> FALSE, jobs |-> << >>, err |-> Nil]

TypeOK ==
    /\ mainpc \in {"boot", "start", "expanded", "reexpanded", "running", "serving"}
                    \cup ExitStates
    /\ crashed \in BOOLEAN
    /\ Len(pc) = Len(jobs) \/ mainpc \notin {"running", "serving"}
    /\ Len(hist) + Len(todo) <= Len(file.Jobs)

\* jobs, err := NewJobs(jobConfig, metrics, config.QueryLabels, config.JobLabelName)
Expand ==
    /\ mainpc = "start" /\ ~crashed
    /\ LET r == NewJobs(cfg, gcfg.JobLabelName, env)
       IN /\ jobs' = jobs \o r.jobs
          /\ err' = r.err
          /\ trace' = [discoverCalls |-> r.discoverCalls,
                       discoveryUsed |-> r.discoveryUsed,
                       dsnConsulted |-> r.dsnConsulted,
                       hosts |-> r.hosts, probes |-> r.probes,
                       given |-> r.given, lookups |-> r.lookups,
                       called |-> TRUE, caller |-> cfg]
          /\ cfg' = CallerConfig(cfg, r.config)
    /\ mainpc' = "expanded"
    /\ UNCHANGED <<consul, probe, gcfg, env, file, todo, hist, rerun, sink, pc, calls, cyc, done, crashed>>

\* a second jobs, err := NewJobs(jobConfig, ...) with the JobConfig the first
\* call left to its caller and the same answers of the outside world
ExpandAgain ==
    /\ mainpc = "expanded"
    /\ LET r == NewJobs(cfg, gcfg.JobLabelName, env)
       IN /\ rerun' = [called |-> TRUE, jobs |-> r.jobs, err |-> r.err]
          /\ cfg' = CallerConfig(cfg, r.config)
    /\ mainpc' = "reexpanded"
    /\ UNCHANGED <<consul, probe, gcfg, env, file, todo, hist, jobs, err, trace, sink, pc, calls, cyc,
                   done, crashed>>

InitExpand ==
    /\ cfg \in ExpandConfigs
    /\ gcfg = GlobalConfig("job_name")
    /\ env \in {[backend |-> b, dns |-> d] :
                    b \in (IF cfg.HostsDiscovery.Type = DISCOVER_TYPE_CONSUL
                           THEN Backends ELSE {World0.backend}),
                    d \in (IF cfg.CacheHostnames THEN Resolvers ELSE {World0.dns})}
    /\ mainpc = "start"
    /\ file = FileOf(<<cfg>>)
    /\ todo = << >>
    /\ hist = << >>
    /\ rerun = NoRerun
    /\ jobs = << >>
    /\ err = Nil
    /\ trace = NoTrace
    /\ sink = NewMetrics
    /\ pc = << >>
    /\ calls = << >>
    /\ cyc = << >>
    /\ done = << >>
    /\ crashed = FALSE
    /\ consul = NoConsul
    /\ probe = NoProbe

NextExpand == Expand \/ ExpandAgain

SpecExpand == InitExpand /\ [][NextExpand]_vars

----------------------------------------------------------------------------
(* Job.Run and Job.Measure, one action per probe operation *)

J == 1..Len(jobs)

NoCycle == [f |-> 0, q |-> 0, j |-> 0, obs |-> << >>]

\* the JobConfigs the range loop visits after one whose NewJobs returned e,
\* with a break in the place of the continue
RemainingAfterBreak(e, rest) == IF e # Nil THEN << >> ELSE rest

\* the JobConfigs the range loop visits after one whose NewJobs returned e:
\* if err != nil { slog.Error(...); continue }
Remaining(e, rest) == rest

\* the rest of the loop body after NewJobs returned:
\* if err != nil { ...; continue }; for _, j := range jobs { go j.Run() }
\* and the move to the next JobConfig, or out of the loop
Start ==
    /\ mainpc = "expanded" /\ ~crashed
    /\ LET new == 1..(Len(jobs) - Len(pc))
           rest == Remaining(err, todo)
       IN /\ pc' = pc \o [i \in new |-> "idle"]
          /\ calls' = calls \o [i \in new |-> << >>]
          /\ cyc' = cyc \o [i \in new |-> NoCycle]
          /\ done' = done \o [i \in new |-> [cycles |-> 0, succ |-> 0, fcalls |-> 0,
                                              issued |-> [failures |-> 0, jobs |-> 0,
                                                          queries |-> 0],
                                              slept |-> 0, open |-> 0]]
          /\ hist' = Append(hist, [config |-> trace.caller, err |-> err,
                                   first |-> Len(pc) + 1, n |-> Len(jobs) - Len(pc)])
          /\ IF rest = << >>
             THEN mainpc' = "running" /\ cfg' = cfg /\ todo' = << >>
             ELSE mainpc' = "start" /\ cfg' = Head(rest) /\ todo' = Tail(rest)
    /\ UNCHANGED <<consul, probe, gcfg, env, file, rerun, jobs, err, trace, sink, crashed>>

\* the duration series that grew between two values of the duration vector
NewObs(d, d2) ==
    LET S == {l \in DOMAIN d2 : d2[l] > Val(d, l)}
    IN IF S = {} THEN << >> ELSE <<(CHOOSE l \in S : TRUE)>>

\* the step of Job i: st is the sink state the step leaves, op the probe
\* calls it made, next the position it reaches when it did not panic,
\* first tells a new cycle begins with it, ret the way Measure goes on:
\* "failure" through IncrFailures, "success" through the final IncrJobs,
\* "" when the cycle continues.  done[i].open counts the connections of the
\* probe of Job i that a Connect opened and no Disconnect closed: Connect
\* stores the new connection in p.conn, Disconnect closes p.conn
Step(i, st, ops, next, first, ret) ==
    LET l == jobs[i].labels
        old == IF first THEN NoCycle ELSE cyc[i]
    IN /\ sink' = st.sink
       /\ crashed' = st.crashed
       /\ pc' = [pc EXCEPT ![i] = IF st.crashed THEN "panic" ELSE next]
       /\ calls' = [calls EXCEPT ![i] = (IF first THEN << >> ELSE @) \o ops]
       /\ cyc' = [cyc EXCEPT ![i] =
                    [f |-> old.f + Val(st.sink.failures, l) - Val(sink.failures, l),
                     q |-> old.q + Val(st.sink.queries, l) - Val(sink.queries, l),
                     j |-> old.j + Val(st.sink.jobs, l) - Val(sink.jobs, l),
                     obs |-> old.obs \o NewObs(sink.duration, st.sink.duration)]]
       /\ done' = [done EXCEPT ![i] =
                    [cycles |-> @.cycles + (IF st.crashed \/ ret = "" THEN 0 ELSE 1),
                     succ |-> @.succ + (IF ~st.crashed /\ ret = "success" THEN 1 ELSE 0),
                     fcalls |-> @.fcalls + (IF ret = "failure" THEN 1 ELSE 0),
                     issued |-> IF st.crashed THEN @.issued
                                ELSE [failures |-> @.issued.failures +
                                                    (IF ret = "failure" THEN 1 ELSE 0),
                                      jobs |-> @.issued.jobs + (IF ret = "" THEN 0 ELSE 1),
                                      queries |-> @.issued.queries + 1],
                     slept |-> @.slept,
                     open |-> IF \E k \in 1..Len(ops) : ops[k] = [op |-> "Connect", ok |-> TRUE]
                              THEN @.open + 1
                              ELSE IF \E k \in 1..Len(ops) : ops[k].op = "Disconnect"
                                   THEN (IF @.open > 0 THEN @.open - 1 ELSE 0)
                                   ELSE @.open]]
       /\ UNCHANGED <<consul, probe, cfg, gcfg, env, mainpc, file, todo, hist, rerun, jobs, err, trace>>

\* the goroutine of Job i exists and the process is alive
Running(i) == i \in DOMAIN pc /\ ~crashed /\ mainpc \notin ExitStates

St0 == [sink |-> sink, crashed |-> FALSE]

\* j.StartMeasurement(); err := j.driver.Connect() ...
Connect(i) ==
    /\ Running(i) /\ pc[i] = "idle"
    /\ done[i].cycles < MaxCycles
    /\ \E ok \in BOOLEAN :
        IF ok
        THEN Step(i, EndMeasurement(St0, gcfg, jobs[i], QUERY_TYPE_CONNECT),
                  <<[op |-> "Connect", ok |-> TRUE]>>, "connected", TRUE, "")
        ELSE Step(i, IncrFailures(St0, gcfg, jobs[i]),
                  <<[op |-> "Connect", ok |-> FALSE]>>, "sleeping", TRUE, "failure")

\* Read with a failure that does not return from Measure: the cycle goes on
\* to the next step as after a success
ReadNoAbort(i) ==
    /\ Running(i) /\ pc[i] = "connected"
    /\ jobs[i].config.QueryType \in {QUERY_TYPE_READ, QUERY_TYPE_READ_WRITE}
    /\ \E ok \in BOOLEAN :
        Step(i, IF ok THEN EndMeasurement(St0, gcfg, jobs[i], QUERY_TYPE_READ)
                ELSE IncrFailures(St0, gcfg, jobs[i]),
             <<[op |-> "Read", ok |-> ok]>>,
             IF jobs[i].config.QueryType = QUERY_TYPE_READ
             THEN "queried" ELSE "readDone", FALSE, "")

\* case QUERY_TYPE_READ, and the first half of case QUERY_TYPE_READ_WRITE
Read(i) ==
    /\ Running(i) /\ pc[i] = "connected"
    /\ jobs[i].config.QueryType \in {QUERY_TYPE_READ, QUERY_TYPE_READ_WRITE}
    /\ \E ok \in BOOLEAN :
        IF ok
        THEN Step(i, EndMeasurement(St0, gcfg, jobs[i], QUERY_TYPE_READ),
                  <<[op |-> "Read", ok |-> TRUE]>>,
                  IF jobs[i].config.QueryType = QUERY_TYPE_READ
                  THEN "queried" ELSE "readDone", FALSE, "")
        ELSE Step(i, IncrFailures(St0, gcfg, jobs[i]),
                  <<[op |-> "Read", ok |-> FALSE]>>, "sleeping", FALSE, "failure")

\* case QUERY_TYPE_WRITE, and the second half of case QUERY_TYPE_READ_WRITE
Write(i) ==
    /\ Running(i)
    /\ \/ pc[i] = "connected" /\ jobs[i].config.QueryType = QUERY_TYPE_WRITE
       \/ pc[i] = "readDone"
    /\ \E ok \in BOOLEAN :
        IF ok
        THEN Step(i, EndMeasurement(St0, gcfg, jobs[i], QUERY_TYPE_WRITE),
                  <<[op |-> "Write", ok |-> TRUE]>>, "queried", FALSE, "")
        ELSE Step(i, IncrFailures(St0, gcfg, jobs[i]),
                  <<[op |-> "Write", ok |-> FALSE]>>, "sleeping", FALSE, "failure")

\* default: j.IncrFailures(); j.driver.Disconnect(); return
UnknownQueryType(i) ==
    /\ Running(i) /\ pc[i] = "connected"
    /\ jobs[i].config.QueryType \notin
          {QUERY_TYPE_READ, QUERY_TYPE_WRITE, QUERY_TYPE_READ_WRITE}
    /\ LET st == IncrFailures(St0, gcfg, jobs[i])
       IN \E ok \in BOOLEAN :
            Step(i, st,
                 IF st.crashed THEN << >> ELSE <<[op |-> "Disconnect", ok |-> ok]>>,
                 "sleeping", FALSE, "failure")

\* the final Disconnect with a failure branch that does not return: the
\* IncrJobs at the end of Measure runs after IncrFailures
DisconnectNoReturn(i) ==
    /\ Running(i) /\ pc[i] = "queried"
    /\ \E ok \in BOOLEAN :
        IF ok
        THEN Step(i, IncrJobs(EndMeasurement(St0, gcfg, jobs[i], QUERY_TYPE_DISCONNECT),
                              gcfg, jobs[i]),
                  <<[op |-> "Disconnect", ok |-> TRUE]>>, "sleeping", FALSE, "success")
        ELSE Step(i, IncrJobs(IncrFailures(St0, gcfg, jobs[i]), gcfg, jobs[i]),
                  <<[op |-> "Disconnect", ok |-> FALSE]>>, "sleeping", FALSE, "failure")

\* j.StartMeasurement(); err = j.driver.Disconnect() ... j.IncrJobs()
Disconnect(i) ==
    /\ Running(i) /\ pc[i] = "queried"
    /\ \E ok \in BOOLEAN :
        IF ok
        THEN Step(i, IncrJobs(EndMeasurement(St0, gcfg, jobs[i], QUERY_TYPE_DISCONNECT),
                              gcfg, jobs[i]),
                  <<[op |-> "Disconnect", ok |-> TRUE]>>, "sleeping", FALSE, "success")
        ELSE Step(i, IncrFailures(St0, gcfg, jobs[i]),
                  <<[op |-> "Disconnect", ok |-> FALSE]>>, "sleeping", FALSE, "failure")

\* time.Sleep(time.Duration(j.config.Interval * int(time.Second))) elapses,
\* the for loop of Run goes round.  time.Sleep returns immediately for a
\* negative or zero duration; done[i].slept is the time Job i has slept
Sleep(i) ==
    /\ Running(i) /\ pc[i] = "sleeping"
    /\ pc' = [pc EXCEPT ![i] = "idle"]
    /\ done' = [done EXCEPT ![i].slept =
                    @ + (IF jobs[i].config.Interval > 0
                         THEN jobs[i].config.Interval ELSE 0)]
    /\ UNCHANGED <<consul, probe, cfg, gcfg, env, mainpc, file, todo, hist, rerun, jobs, err, trace, sink,
                   calls, cyc, crashed>>

\* the JobConfigs of the run-time specification
RunConfigs ==
    {[BaseConfig EXCEPT
        !.Host = t.host, !.Hosts = t.hosts, !.JobPerHost = t.jph,
        !.PrefixNameWithHost = t.pfx, !.Interval = t.interval, !.Labels = ul,
        !.QueryType = qt] :
        t \in {[host |-> <<"10.0.0.1">>, hosts |-> << >>, jph |-> FALSE, pfx |-> FALSE,
                interval |-> 0],
               [host |-> <<"10.0.0.1">>, hosts |-> << >>, jph |-> FALSE, pfx |-> FALSE,
                interval |-> 2],
               [host |-> <<"10.0.0.1">>, hosts |-> << >>, jph |-> FALSE, pfx |-> FALSE,
                interval |-> -1],
               [host |-> << >>, hosts |-> <<(<<"10.0.0.1">>), (<<"db.internal">>)>>,
                jph |-> TRUE, pfx |-> TRUE, interval |-> 0],
               [host |-> << >>, hosts |-> <<(<<"10.0.0.1">>), (<<"db.internal">>)>>,
                jph |-> TRUE, pfx |-> FALSE, interval |-> 0]},
        ul \in UserLabels,
        qt \in {QUERY_TYPE_READ, QUERY_TYPE_WRITE, QUERY_TYPE_READ_WRITE, "scan"}}

Init ==
    /\ cfg \in RunConfigs
    /\ gcfg = GlobalConfig("job_name")
    /\ env = World0
    /\ mainpc = "start"
    /\ file = FileOf(<<cfg>>)
    /\ todo = << >>
    /\ hist = << >>
    /\ rerun = NoRerun
    /\ jobs = << >>
    /\ err = Nil
    /\ trace = NoTrace
    /\ sink = NewMetrics
    /\ pc = << >>
    /\ calls = << >>
    /\ cyc = << >>
    /\ done = << >>
    /\ crashed = FALSE
    /\ consul = NoConsul
    /\ probe = NoProbe

Next ==
    \/ Expand
    \/ Start
    \/ \E i \in J : Connect(i)
    \/ \E i \in J : Read(i)
    \/ \E i \in J : Write(i)
    \/ \E i \in J : UnknownQueryType(i)
    \/ \E i \in J : Disconnect(i)
    \/ \E i \in J : Sleep(i)

Spec == Init /\ [][Next]_vars

----------------------------------------------------------------------------
(* main: NewConfig, the log settings, the loop over config.Jobs, the listener *)

MaxSpecs == 2

QueryTypes == {QUERY_TYPE_READ, QUERY_TYPE_WRITE, QUERY_TYPE_READ_WRITE}

LogLevels == {"debug", "info", "warn", "error"}

LogFormats == {"json", "text"}

\* NewConfig without the two loops over config.Jobs
ValidateJobsSkipped(js) == Nil

\* NewConfig without the loop over the query types
ValidateJobsNamesOnly(js) ==
    IF \E k \in 1..Len(js) : js[k].Name = << >> THEN "job without name" ELSE Nil

\* the two loops of NewConfig over config.Jobs: the query types, then the names
ValidateJobs(js) ==
    IF \E k \in 1..Len(js) : js[k].QueryType \notin QueryTypes
    THEN "invalid query type"
    ELSE IF \E k \in 1..Len(js) : js[k].Name = << >>
         THEN "job without name"
         ELSE Nil

\* the error of NewConfig: os.ReadFile or yaml.Unmarshal failed, or a
\* JobConfig is not valid
NewConfig(f) == IF ~f.ok THEN "cannot read or parse file" ELSE ValidateJobs(f.Jobs)

\* where main stands once the configuration is loaded and the logger set
Boot(f) ==
    IF NewConfig(f) # Nil THEN "exit_config"
    ELSE IF f.LogLevel \notin LogLevels THEN "exit_loglevel"
    ELSE IF f.LogFormat \notin LogFormats THEN "exit_logformat"
    ELSE IF Len(f.Jobs) = 0 THEN "exit_nojob"
    ELSE "start"

\* main from internal.NewConfig(*configFile) to the head of the range loop
LoadConfig ==
    /\ mainpc = "boot"
    /\ mainpc' = Boot(file)
    /\ IF Boot(file) = "start"
       THEN cfg' = Head(file.Jobs) /\ todo' = Tail(file.Jobs)
       ELSE UNCHANGED <<cfg, todo>>
    /\ UNCHANGED <<consul, probe, gcfg, env, file, hist, rerun, jobs, err, trace, sink, pc, calls, cyc,
                   done, crashed>>

\* http.ListenAndServe(config.ListenAddr, nil): it serves, or it returns an
\* error and main exits
Serve ==
    /\ mainpc = "running" /\ ~crashed
    /\ \E ok \in BOOLEAN : mainpc' = IF ok THEN "serving" ELSE "exit_listen"
    /\ UNCHANGED <<consul, probe, cfg, gcfg, env, file, todo, hist, rerun, jobs, err, trace, sink, pc,
                   calls, cyc, done, crashed>>

\* the zero JobConfig
NoConfig == [BaseConfig EXCEPT !.Name = << >>, !.Type = "", !.QueryType = "",
                               !.Table = "", !.Key = "", !.Database = "",
                               !.Collection = ""]

\* the JobConfigs of the configuration files: two that run, one reading and
\* one reading and writing, one with a user label, one of an unsupported
\* type, one without target, one without name, one with an invalid query
\* type, one expanded per host whose second host yields no Job
MainConfigs ==
    LET good == [BaseConfig EXCEPT !.Host = <<"10.0.0.1">>, !.QueryType = QUERY_TYPE_READ]
    IN {good,
        [good EXCEPT !.Name = <<"pong">>, !.Host = <<"db.internal">>,
                     !.QueryType = QUERY_TYPE_READ_WRITE],
        [good EXCEPT !.Labels = ("env" :> <<"prod">>)],
        [good EXCEPT !.Type = "oracle"],
        [good EXCEPT !.Host = << >>],
        [good EXCEPT !.Name = << >>],
        [good EXCEPT !.QueryType = "scan"],
        [good EXCEPT !.Type = JOB_TYPE_MONGODB, !.Host = << >>,
                     !.Hosts = <<(<<"db.internal">>), (<<"10.0.0.1">>)>>,
                     !.JobPerHost = TRUE, !.CacheHostnames = TRUE]}

\* the configuration files: up to MaxSpecs JobConfigs, each listed once
MainFiles ==
    {[ok |-> o, LogLevel |-> ll, LogFormat |-> lf, Jobs |-> js] :
        o \in BOOLEAN, ll \in {"warn", "trace"}, lf \in {"text", "xml"},
        js \in {q \in SeqsUpTo(MainConfigs, MaxSpecs) :
                    \A a, b \in 1..Len(q) : a # b => q[a] # q[b]}}

InitMain ==
    /\ file \in MainFiles
    /\ cfg = NoConfig
    /\ gcfg = GlobalConfig("job_name")
    /\ env = World0
    /\ mainpc = "boot"
    /\ todo = << >>
    /\ hist = << >>
    /\ rerun = NoRerun
    /\ jobs = << >>
    /\ err = Nil
    /\ trace = NoTrace
    /\ sink = NewMetrics
    /\ pc = << >>
    /\ calls = << >>
    /\ cyc = << >>
    /\ done = << >>
    /\ crashed = FALSE
    /\ consul = NoConsul
    /\ probe = NoProbe

NextMain ==
    \/ LoadConfig
    \/ Expand
    \/ Start
    \/ Serve
    \/ \E i \in J : Connect(i)
    \/ \E i \in J : Read(i)
    \/ \E i \in J : Write(i)
    \/ \E i \in J : Disconnect(i)
    \/ \E i \in J : Sleep(i)

SpecMain == InitMain /\ [][NextMain]_vars

----------------------------------------------------------------------------
(* Scheduling: every goroutine that can take a step eventually takes it *)

\* the Jobs a JobConfig of RunConfigs expands to
JobIds == 1..2

\* one step of the goroutine of Job i: a probe operation returns, or the
\* sleep of Run elapses
JobStep(i) ==
    \/ Connect(i)
    \/ Read(i)
    \/ Write(i)
    \/ UnknownQueryType(i)
    \/ Disconnect(i)
    \/ Sleep(i)

\* every goroutine of a Job is scheduled: the probe operation it waits for
\* returns, its sleep elapses
Fairness == \A i \in JobIds : WF_vars(JobStep(i))

SpecFair == Spec /\ Fairness

\* a probe operation of Job i never returns: Connect, the Read or Write of
\* the query phase, or the final Disconnect
Hang(i) ==
    /\ Running(i)
    /\ \/ pc[i] = "idle" /\ done[i].cycles < MaxCycles
       \/ pc[i] = "connected" /\ jobs[i].config.QueryType \in QueryTypes
       \/ pc[i] \in {"readDone", "queried"}
    /\ pc' = [pc EXCEPT ![i] = "hung"]
    /\ UNCHANGED <<consul, probe, cfg, gcfg, env, mainpc, file, todo, hist, rerun, jobs, err, trace, sink,
                   calls, cyc, done, crashed>>

NextHang ==
    \/ Next
    \/ \E i \in J : Hang(i)

\* probe operations may hang; the scheduler stays fair to every goroutine
SpecHang == Init /\ [][NextHang]_vars /\ Fairness

----------------------------------------------------------------------------
(* A remote store that never answers *)

\* for each operation of a driver: TRUE when every wait for an answer of the
\* remote store in it is under a deadline.  pgx.Connect, the statements and
\* conn.Close all take a context with the configured timeout
PostgresqlDeadlines ==
    [Connect |-> TRUE, Read |-> TRUE, Write |-> TRUE, Disconnect |-> TRUE]

\* Connect is sql.Open and db.Ping() with no context and no dial timeout in
\* the mysql.Config; the statements take a context with the timeout;
\* db.Close() waits for no answer
MysqlDeadlines ==
    [Connect |-> FALSE, Read |-> TRUE, Write |-> TRUE, Disconnect |-> TRUE]

\* Connect is mongo.Connect, which waits for no server, and a Ping with the
\* timeout; Disconnect is client.Disconnect(context.Background())
MongodbDeadlines ==
    [Connect |-> TRUE, Read |-> TRUE, Write |-> TRUE, Disconnect |-> FALSE]

\* Connect is clickhouse.Open, which dials nothing, and a Ping with the
\* timeout; conn.Close() waits for no answer
ClickhouseDeadlines ==
    [Connect |-> TRUE, Read |-> TRUE, Write |-> TRUE, Disconnect |-> TRUE]

\* valkey.NewClient dials under the dial timeout of the client library; the
\* commands take a context with the timeout; client.Close() waits for no
\* answer
ValkeyDeadlines ==
    [Connect |-> TRUE, Read |-> TRUE, Write |-> TRUE, Disconnect |-> TRUE]

Deadlines(type) ==
    CASE type = JOB_TYPE_CLICKHOUSE -> ClickhouseDeadlines
      [] type = JOB_TYPE_MONGODB -> MongodbDeadlines
      [] type = JOB_TYPE_MYSQL -> MysqlDeadlines
      [] type = JOB_TYPE_VALKEY -> ValkeyDeadlines
      [] OTHER -> PostgresqlDeadlines

\* the probe operation Measure calls next for Job i
OpAt(i) ==
    CASE pc[i] = "idle" -> "Connect"
      [] pc[i] = "connected" ->
            (CASE jobs[i].config.QueryType \in {QUERY_TYPE_READ, QUERY_TYPE_READ_WRITE}
                    -> "Read"
               [] jobs[i].config.QueryType = QUERY_TYPE_WRITE -> "Write"
               [] OTHER -> "Disconnect")
      [] pc[i] = "readDone" -> "Write"
      [] OTHER -> "Disconnect"

\* the remote store never answers the operation Job i calls: an operation
\* under a deadline returns an error when the deadline passes (the steps of
\* Measure with a failed call), one without never returns
NoAnswer(i) ==
    /\ Running(i)
    /\ \/ pc[i] = "idle" /\ done[i].cycles < MaxCycles
       \/ pc[i] \in {"connected", "readDone", "queried"}
    /\ ~Deadlines(jobs[i].driver.type)[OpAt(i)]
    /\ pc' = [pc EXCEPT ![i] = "hung"]
    /\ UNCHANGED <<consul, probe, cfg, gcfg, env, mainpc, file, todo, hist, rerun, jobs, err, trace, sink,
                   calls, cyc, done, crashed>>

\* one JobConfig for each store type, with and without a timeout
TimeoutConfigs ==
    {[BaseConfig EXCEPT !.Host = <<"10.0.0.1">>, !.Type = ty, !.Timeout = t,
                        !.QueryType = qt] :
        ty \in {JOB_TYPE_CLICKHOUSE, JOB_TYPE_MONGODB, JOB_TYPE_MYSQL,
                JOB_TYPE_POSTGRESQL, JOB_TYPE_VALKEY},
        t \in {0, 5},
        qt \in {QUERY_TYPE_READ, QUERY_TYPE_WRITE, QUERY_TYPE_READ_WRITE, "scan"}}

InitTimeout ==
    /\ cfg \in TimeoutConfigs
    /\ gcfg = GlobalConfig("job_name")
    /\ env = World0
    /\ mainpc = "start"
    /\ file = FileOf(<<cfg>>)
    /\ todo = << >>
    /\ hist = << >>
    /\ rerun = NoRerun
    /\ jobs = << >>
    /\ err = Nil
    /\ trace = NoTrace
    /\ sink = NewMetrics
    /\ pc = << >>
    /\ calls = << >>
    /\ cyc = << >>
    /\ done = << >>
    /\ crashed = FALSE
    /\ consul = NoConsul
    /\ probe = NoProbe

NextTimeout ==
    \/ Next
    \/ \E i \in J : NoAnswer(i)

\* the remote store may stay silent; the scheduler stays fair to every
\* goroutine
SpecTimeout == InitTimeout /\ [][NextTimeout]_vars /\ Fairness

----------------------------------------------------------------------------
(* A Consul discovery on its own *)

\* the program before main has done anything
Idle ==
    /\ cfg = NoConfig
    /\ gcfg = GlobalConfig("job_name")
    /\ env = World0
    /\ mainpc = "boot"
    /\ file = FileOf(<< >>)
    /\ todo = << >>
    /\ hist = << >>
    /\ rerun = NoRerun
    /\ jobs = << >>
    /\ err = Nil
    /\ trace = NoTrace
    /\ sink = NewMetrics
    /\ pc = << >>
    /\ calls = << >>
    /\ cyc = << >>
    /\ done = << >>
    /\ crashed = FALSE

\* the nodes of the catalogs: an address and node metadata
Nodes ==
    {[Address |-> a, Meta |-> m] :
        a \in {<<"10.0.0.2">>, <<"10.0.0.3">>},
        m \in {<< >>,
               ("ip" :> <<"10.0.0.2">>),
               ("ip" :> <<"db.internal">>),
               ("alt" :> <<"10.0.0.2">>),
               ("ip" :> <<"10.0.0.2">> @@ "alt" :> <<"10.0.0.2">>),
               ("ip" :> <<"db.internal">> @@ "alt" :> <<"10.0.0.2">>)}}

\* the answers of the catalog to the clients, in the order of
\* opts.Addresses (none when no address is configured): an error, the
\* nodes, or the nodes of a catalog that knows one other node
Answers(nodes) ==
    LET up == [err |-> Nil, nodes |-> nodes]
        down == [err |-> "connection refused", nodes |-> << >>]
        other == [err |-> Nil,
                  nodes |-> <<[Address |-> <<"10.0.0.9">>,
                               Meta |-> ("ip" :> <<"10.0.0.9">>)]>>]
    IN {<<up>>, <<down>>, <<down, up>>, <<up, down>>, <<down, down>>,
        <<up, other>>, <<other, up>>, <<down, down, up>>, << >>}

InitDiscover ==
    /\ Idle
    /\ probe = NoProbe
    /\ \E rm \in {"", "ip"}, rms \in SeqsUpTo({"ip", "alt"}, 2),
          nodes \in SeqsUpTo(Nodes, MaxNodes) :
        \E answers \in Answers(nodes) :
            consul = [NoConsul EXCEPT !.opts = [ReturnMeta |-> rm, ReturnMetas |-> rms],
                                      !.answers = answers]

\* dh, err = discover.NewConsul(opts); hosts, err = dh.Discover()
Discover ==
    /\ ~consul.called
    /\ LET r == ConsulDiscover(ReturnMetas(consul.opts), consul.answers)
       IN consul' = [consul EXCEPT !.hosts = r.hosts, !.err = r.err, !.called = TRUE,
                                   !.asked = r.asked]
    /\ UNCHANGED <<probe, cfg, gcfg, env, mainpc, file, todo, hist, rerun, jobs, err, trace,
                   sink, pc, calls, cyc, done, crashed>>

NextDiscover == Discover

SpecDiscover == InitDiscover /\ [][NextDiscover]_vars

----------------------------------------------------------------------------
(* A SQL probe on its own: Read and Write against its store *)

MaxOps == 2

\* which of the statements of one operation the store fails
Faults == [1..4 -> BOOLEAN]

InitStore ==
    /\ Idle
    /\ consul = NoConsul
    /\ \E ty \in {JOB_TYPE_POSTGRESQL, JOB_TYPE_MYSQL, JOB_TYPE_CLICKHOUSE},
          create \in BOOLEAN,
          db \in {[table |-> FALSE, row |-> FALSE], [table |-> TRUE, row |-> FALSE],
                  [table |-> TRUE, row |-> TRUE]} :
        probe = [type |-> ty, opts |-> [Create |-> create, Table |-> "t"],
                 db |-> db, before |-> db, op |-> "none", log |-> << >>,
                 err |-> Nil, ops |-> 0]

\* the probe after an operation that ran as r
AfterOp(op, r) ==
    /\ probe' = [probe EXCEPT !.db = r.db, !.before = probe.db, !.op = op,
                              !.log = r.log, !.err = r.err, !.ops = @ + 1]
    /\ UNCHANGED <<consul, cfg, gcfg, env, mainpc, file, todo, hist, rerun, jobs, err, trace,
                   sink, pc, calls, cyc, done, crashed>>

\* err := j.driver.Read()
ProbeRead ==
    /\ probe.ops < MaxOps
    /\ \E f \in Faults :
        AfterOp("Read", DriverRead(probe.type, probe.opts,
                                   [db |-> probe.db, log |-> << >>, faults |-> f,
                                    err |-> Nil]))

\* err := j.driver.Write()
ProbeWrite ==
    /\ probe.ops < MaxOps
    /\ \E f \in Faults :
        AfterOp("Write", DriverWrite(probe.type, probe.opts,
                                     [db |-> probe.db, log |-> << >>, faults |-> f,
                                      err |-> Nil]))

NextStore == ProbeRead \/ ProbeWrite

SpecStore == InitStore /\ [][NextStore]_vars

----------------------------------------------------------------------------
(* The connection URI of a Postgresql or Mongodb probe *)

\* the DSNs: of the tests, with an upper-case scheme, in the keyword/value
\* form, with a percent sign that is no escape, with two hosts of which the
\* first has a port
DSNs ==
    {<< >>,
     <<"postgres", "://", "canary", ":", "password", "@", "127.0.0.1", ":5432", "/",
       "canary_db">>,
     <<"mongodb", "://", "127.0.0.1", ":27017", "/", "canary", "?", "tls=true">>,
     <<"POSTGRESQL", "://", "127.0.0.1", "/", "canary_db">>,
     <<"host=127.0.0.1", " ", "user=canary">>,
     <<"postgresql", "://", "127.0.0.1", "/", "%zz">>,
     <<"postgresql", "://", "127.0.0.1", ":5432", ",", "10.0.0.2", "/", "canary_db">>}

UriHosts == {<<"127.0.0.1">>, <<"10.0.0.2", ":5433">>}

\* the options of a probe that has not been built yet
Unbuilt(type, opts) ==
    [type |-> type, opts |-> opts, built |-> FALSE, uri |-> << >>, err |-> Nil]

InitURI ==
    /\ Idle
    /\ consul = NoConsul
    /\ \E dsn \in DSNs, hosts \in SeqsUpTo(UriHosts, MaxHosts),
          db \in {<< >>, <<"canary_db">>}, secure \in BOOLEAN :
        \/ \E port \in {<< >>, <<":5432">>}, user \in {<< >>, <<"canary">>},
              pwd \in {<< >>, <<"password">>} :
            probe = Unbuilt(JOB_TYPE_POSTGRESQL,
                            [DSN |-> dsn, Hosts |-> hosts, Port |-> port,
                             Username |-> user, Password |-> pwd, Database |-> db,
                             SSLMode |-> IF secure THEN "require" ELSE "",
                             Table |-> "t"])
        \/ \E scheme \in {"", "mongodb+srv"}, rs \in {<< >>, <<"rs0">>},
              insecure \in BOOLEAN :
            probe = Unbuilt(JOB_TYPE_MONGODB,
                            [DSN |-> dsn, Hosts |-> hosts, Scheme |-> scheme,
                             Database |-> db, ReplicaSet |-> rs, TLS |-> secure,
                             TLSInsecure |-> insecure, Collection |-> "c"])

\* the connection URI of a probe of that type built with these options
ProbeURI(type, opts) ==
    IF type = JOB_TYPE_MONGODB THEN MongodbURI(opts) ELSE PostgresqlURI(opts)

\* d, err = driver.NewPostgresql(opts) or driver.NewMongodb(opts)
Construct ==
    /\ ~probe.built
    /\ LET r == ProbeURI(probe.type, probe.opts)
       IN probe' = [probe EXCEPT !.built = TRUE, !.uri = r.uri, !.err = r.err]
    /\ UNCHANGED <<consul, cfg, gcfg, env, mainpc, file, todo, hist, rerun, jobs, err, trace,
                   sink, pc, calls, cyc, done, crashed>>

NextURI == Construct

SpecURI == InitURI /\ [][NextURI]_vars

----------------------------------------------------------------------------
(* ObserveDuration on its own, called with any phase *)

MaxObs == 2

\* one Job built by NewJob; the query labels are the defaults or the values
\* of the configuration file
InitObserve ==
    /\ cfg \in {[BaseConfig EXCEPT !.Host = <<"10.0.0.1">>, !.Labels = ul] :
                    ul \in UserLabels}
    /\ gcfg \in {GlobalConfig("job_name"),
                 [GlobalConfig("job_name") EXCEPT !.QueryLabels =
                     [Name |-> "phase", ConnectValue |-> "c", ReadValue |-> "r",
                      WriteValue |-> "w", DisconnectValue |-> "d"]]}
    /\ env = World0
    /\ mainpc = "running"
    /\ file = FileOf(<<cfg>>)
    /\ todo = << >>
    /\ hist = << >>
    /\ rerun = NoRerun
    /\ jobs = <<NewJob(cfg, gcfg.JobLabelName, env.dns).job>>
    /\ err = Nil
    /\ trace = NoTrace
    /\ sink = NewMetrics
    /\ pc = << >>
    /\ calls = << >>
    /\ cyc = << >>
    /\ done = << >>
    /\ crashed = FALSE
    /\ consul = NoConsul
    /\ probe = [type |-> "observe", phases |-> << >>, before |-> NewMetrics,
                labels |-> jobs[1].labels]

\* j.ObserveDuration(queryType, duration); the map it fills is its own, the
\* Job is left as it was
Observe ==
    /\ probe.type = "observe" /\ ~crashed
    /\ Len(probe.phases) < MaxObs
    /\ \E i \in J, q \in {QUERY_TYPE_CONNECT, QUERY_TYPE_READ, QUERY_TYPE_WRITE,
                          QUERY_TYPE_DISCONNECT, QUERY_TYPE_READ_WRITE, "scan"} :
        /\ sink' = ObserveDuration(St0, gcfg, jobs[i], q).sink
        /\ crashed' = ObserveDuration(St0, gcfg, jobs[i], q).crashed
        /\ probe' = [probe EXCEPT !.phases = Append(@, q), !.before = sink]
    /\ UNCHANGED <<consul, cfg, gcfg, env, mainpc, file, todo, hist, rerun, jobs, err, trace,
                   pc, calls, cyc, done>>

SpecObserve == InitObserve /\ [][Observe]_vars

----------------------------------------------------------------------------
(* Properties of the measurement cycle *)

Started == mainpc = "running"

Ops(i) == [k \in 1..Len(calls[i]) |-> calls[i][k].op]

AllOk(i) == \A k \in 1..Len(calls[i]) : calls[i][k].ok

Phases(i) == [k \in 1..Len(cyc[i].obs) |-> cyc[i].obs[k][gcfg.QueryLabels.Name]]

ConnectFailed(i) == calls[i] = <<[op |-> "Connect", ok |-> FALSE]>>

\* C1: a cycle in which Connect fails increments the failure, query and job
\* counters by exactly 1 each, records no duration observation and invokes
\* neither Read, Write nor Disconnect.
C1_ConnectFailureCounts ==
    Started =>
        \A i \in J :
            (Len(calls[i]) > 0 /\ ~calls[i][1].ok) =>
                /\ cyc[i].f = 1 /\ cyc[i].q = 1 /\ cyc[i].j = 1
                /\ cyc[i].obs = << >>
                /\ Ops(i) = <<"Connect">>

\* C1 for the Jobs whose JobConfig has no user-defined label
C1_WithoutUserLabels ==
    Started =>
        \A i \in J :
            (Len(calls[i]) > 0 /\ ~calls[i][1].ok /\ DOMAIN cfg.Labels = {}) =>
                /\ cyc[i].f = 1 /\ cyc[i].q = 1 /\ cyc[i].j = 1
                /\ cyc[i].obs = << >>
                /\ Ops(i) = <<"Connect">>

FullReadWrite(i) ==
    /\ jobs[i].config.QueryType = QUERY_TYPE_READ_WRITE
    /\ Ops(i) = <<"Connect", "Read", "Write", "Disconnect">>
    /\ AllOk(i)

\* C2: a read_write cycle in which Connect, Read, Write and Disconnect all
\* succeed records exactly the 4 observations connect, read, write,
\* disconnect in that order, and increments the query counter by 4, the job
\* counter by 1 and the failure counter by 0.
C2_FullReadWriteCycle ==
    Started =>
        \A i \in J :
            FullReadWrite(i) =>
                /\ Phases(i) = <<"connect", "read", "write", "disconnect">>
                /\ cyc[i].q = 4 /\ cyc[i].j = 1 /\ cyc[i].f = 0

C2_Witness ==
    Started /\ \E i \in J : FullReadWrite(i) /\ done[i].cycles = 2

\* a step of Job i in which it calls IncrFailures
CallsIncrFailures(i) == done'[i].fcalls = done[i].fcalls + 1

\* C3: every call to IncrFailures increases the failure, query and job
\* counters of the Job's label set by exactly 1 each; so failures <= jobs
\* and failures <= queries for every label set.
C3_IncrFailuresStep ==
    [][(Started /\ Started') =>
        \A i \in J :
            CallsIncrFailures(i) =>
                LET l == jobs[i].labels
                IN /\ Val(sink'.failures, l) = Val(sink.failures, l) + 1
                   /\ Val(sink'.queries, l) = Val(sink.queries, l) + 1
                   /\ Val(sink'.jobs, l) = Val(sink.jobs, l) + 1]_vars

C3_FailuresBounded ==
    \A l \in DOMAIN sink.failures :
        /\ sink.failures[l] <= Val(sink.jobs, l)
        /\ sink.failures[l] <= Val(sink.queries, l)

C3_IncrFailures == C3_IncrFailuresStep /\ []C3_FailuresBounded

\* C3 for the Jobs whose JobConfig has no user-defined label
C3_WithoutUserLabels ==
    [][(Started /\ Started' /\ DOMAIN cfg.Labels = {}) =>
        \A i \in J :
            CallsIncrFailures(i) =>
                LET l == jobs[i].labels
                IN /\ Val(sink'.failures, l) = Val(sink.failures, l) + 1
                   /\ Val(sink'.queries, l) = Val(sink.queries, l) + 1
                   /\ Val(sink'.jobs, l) = Val(sink.jobs, l) + 1]_vars

OwnLabelSet(i) == \A k \in J : k # i => jobs[k].labels # jobs[i].labels

\* Measure has returned and Run has not yet begun the next cycle
CycleCompleted(i) == pc[i] = "sleeping"

\* C4: every completed cycle increases the job counter by exactly 1 and the
\* failure counter by at most 1; for a Job with its own label set the job
\* counter equals its completed cycles and equals failures plus successes.
C4_JobCounter ==
    Started =>
        \A i \in J :
            /\ CycleCompleted(i) => cyc[i].j = 1 /\ cyc[i].f <= 1
            /\ OwnLabelSet(i) =>
                /\ Val(sink.jobs, jobs[i].labels) = done[i].cycles
                /\ Val(sink.jobs, jobs[i].labels) =
                      Val(sink.failures, jobs[i].labels) + done[i].succ

C4_Witness ==
    Started /\ \E i \in J :
        /\ OwnLabelSet(i) /\ Len(jobs) = 2 /\ CycleCompleted(i)
        /\ done[i].cycles = 2 /\ done[i].succ = 1
        /\ Ops(i) = <<"Connect", "Read">>

----------------------------------------------------------------------------
(* Properties of job expansion *)

Called == trace.called

\* the JobConfig NewJobs was called with
Given == trace.caller

PerHostCase == Called /\ Given.JobPerHost /\ Len(trace.hosts) >= 1

CallerUnchanged == cfg.Name = Given.Name /\ cfg.Hosts = Given.Hosts

OneJobPerHost ==
    /\ Len(jobs) = Len(trace.hosts)
    /\ Len(trace.given) = Len(trace.hosts)
    /\ \A i \in 1..Len(trace.hosts) :
        /\ trace.given[i].Hosts = <<trace.hosts[i]>>
        /\ i <= Len(jobs) => jobs[i].config.Name = trace.given[i].Name

\* C5 as claimed: with job_per_host=true and N >= 1 resolved hosts NewJobs
\* returns exactly N Jobs, the i-th built from a JobConfig whose host list
\* is [host_i], and the caller's JobConfig is unchanged.
C5_AlwaysOneJobPerHost ==
    PerHostCase => OneJobPerHost /\ CallerUnchanged

\* C5 amended: the same whenever NewJobs returns no error; when it returns
\* an error it returns no Job; the caller's JobConfig is unchanged either way.
C5_OneJobPerHost ==
    PerHostCase =>
        /\ err = Nil => OneJobPerHost
        /\ err # Nil => jobs = << >>
        /\ CallerUnchanged

C5_Witness ==
    /\ PerHostCase /\ err = Nil /\ Len(jobs) = 2
    /\ Given.PrefixNameWithHost /\ Given.Host = << >>
    /\ trace.hosts[1] # trace.hosts[2]

\* hosts joined by "/", then "/", then the name, written out host by host
RECURSIVE Prefixed(_, _)
Prefixed(hosts, name) ==
    IF Len(hosts) = 0 THEN <<"/">> \o name
    ELSE IF Len(hosts) = 1 THEN hosts[1] \o <<"/">> \o name
    ELSE hosts[1] \o <<"/">> \o Prefixed(Tail(hosts), name)

JobName(i) == jobs[i].config.Name

\* C6: without prefix_name_with_host a Job is named as its JobConfig; with
\* it the name is the hosts joined by "/", then "/", then the original
\* name; in per-host expansion the i-th Job is named h_i/name.
C6_NameDerivation ==
    (Called /\ err = Nil) =>
        \A i \in 1..Len(jobs) :
            /\ JobName(i) = jobs[i].labels[gcfg.JobLabelName]
            /\ ~Given.PrefixNameWithHost => JobName(i) = Given.Name
            /\ Given.PrefixNameWithHost =>
                    JobName(i) = Prefixed(trace.given[i].Hosts, Given.Name)
            /\ (Given.PrefixNameWithHost /\ PerHostCase) =>
                    JobName(i) = trace.hosts[i] \o <<"/">> \o Given.Name

C6_Witness ==
    /\ PerHostCase /\ err = Nil /\ Len(jobs) = 2 /\ Given.PrefixNameWithHost
    /\ JobName(1) = <<"10.0.0.1", "/", "ping">>
    /\ JobName(2) = <<"db.internal", "/", "ping">>

\* C7: with prefix_name_with_host=true and name_separator set to a
\* non-empty s, the derived name uses s between the hosts and before the
\* original name.
C7_SeparatorConfigurable ==
    (Called /\ err = Nil /\ Given.PrefixNameWithHost /\ Given.NameSeparator # << >>) =>
        \A i \in 1..Len(jobs) :
            JobName(i) = Join(<<Join(trace.given[i].Hosts, Given.NameSeparator),
                                Given.Name>>, Given.NameSeparator)

\* C8: every counter increment and duration observation of a Job is
\* accepted by the sink: the label names the Job supplies match the names
\* the metrics were declared with, and nothing aborts the Job.
C8_LabelsAccepted ==
    Started =>
        /\ ~crashed
        /\ \A i \in J :
            /\ pc[i] # "panic"
            /\ DOMAIN cfg.Labels \subseteq DOMAIN jobs[i].labels
            /\ \A m \in {"failures", "jobs", "queries"} :
                    WithAccepts(gcfg, m, jobs[i].labels)

\* C9: host > hosts > discovery > dsn.
C9_TargetPrecedence ==
    Called =>
        /\ Given.Host # << >> =>
                /\ trace.hosts = <<Given.Host>>
                /\ trace.discoverCalls = 0 /\ ~trace.discoveryUsed
                /\ ~trace.dsnConsulted
        /\ (Given.Host = << >> /\ Len(Given.Hosts) > 0) =>
                /\ trace.hosts = Given.Hosts
                /\ trace.discoverCalls = 0 /\ ~trace.discoveryUsed
                /\ ~trace.dsnConsulted
        /\ (trace.discoverCalls > 0 \/ trace.discoveryUsed) =>
                /\ Given.Host = << >> /\ Given.Hosts = << >>
                /\ Given.HostsDiscovery.Type # ""
                /\ ~trace.dsnConsulted
        /\ trace.dsnConsulted =>
                /\ Given.Host = << >> /\ Given.Hosts = << >>
                /\ Given.HostsDiscovery.Type = ""
        /\ (~Given.JobPerHost /\ Len(trace.given) > 0) =>
                trace.given[1].Hosts = trace.hosts

C9_Witness ==
    /\ Called /\ Given.Host # << >> /\ Len(Given.Hosts) = 2
    /\ Given.HostsDiscovery.Type = DISCOVER_TYPE_CONSUL /\ Given.DSN # ""
    /\ env.backend.err = Nil /\ Len(env.backend.hosts) = 2
    /\ err = Nil /\ Len(jobs) = 1 /\ trace.hosts = <<Given.Host>>

DiscoveryConfigured ==
    Given.Host = << >> /\ Given.Hosts = << >> /\ Given.HostsDiscovery.Type # ""

DiscoveryFailed ==
    Given.HostsDiscovery.Type # DISCOVER_TYPE_CONSUL \/ env.backend.err # Nil

\* C10: for a discovery-configured JobConfig NewJobs returns an error and
\* no Job when discovery fails and when it finds no host, even with a DSN,
\* and no probe is instantiated.
C10_DiscoveryErrors ==
    (Called /\ DiscoveryConfigured /\ (DiscoveryFailed \/ env.backend.hosts = << >>)) =>
        /\ err # Nil
        /\ jobs = << >>
        /\ trace.probes = << >>

C10_Witness ==
    /\ Called /\ DiscoveryConfigured /\ Given.DSN # ""
    /\ Given.HostsDiscovery.Type = DISCOVER_TYPE_CONSUL
    /\ env.backend.err = Nil /\ env.backend.hosts = << >>
    /\ trace.discoverCalls = 1
    /\ err = "0 host found by discovery" /\ jobs = << >>

----------------------------------------------------------------------------
(* Properties of job expansion: targets, store types, hostname caching *)

MissingTarget == "host, hosts, hosts_discovery or dsn required"

NoTargetField ==
    Given.Host = << >> /\ Given.Hosts = << >> /\ Given.HostsDiscovery.Type = ""

\* C11: NewJobs fails with the missing-target error, creating no Job and no
\* probe, exactly when host, hosts, the discovery type and dsn are all
\* empty; with only a dsn it goes on to build one Job with no host.
C11_MissingTarget ==
    Called =>
        /\ err = MissingTarget <=> (NoTargetField /\ Given.DSN = "")
        /\ err = MissingTarget =>
                jobs = << >> /\ trace.probes = << >> /\ trace.given = << >>
        /\ (NoTargetField /\ Given.DSN # "") =>
                /\ trace.hosts = << >>
                /\ Len(trace.given) = 1 /\ trace.given[1].Hosts = << >>
                /\ err = Nil => Len(jobs) = 1 /\ jobs[1].config.Hosts = << >>
                /\ err # Nil => jobs = << >>

C11_Witness ==
    /\ Called /\ NoTargetField /\ Given.DSN # "" /\ Given.JobPerHost
    /\ err = Nil /\ Len(jobs) = 1 /\ jobs[1].driver.hosts = << >>

StoreTypes ==
    {JOB_TYPE_CLICKHOUSE, JOB_TYPE_MONGODB, JOB_TYPE_MYSQL, JOB_TYPE_POSTGRESQL,
     JOB_TYPE_VALKEY}

\* NewJob was called with a store type outside the five
UnsupportedTypeCase ==
    Called /\ Len(trace.given) >= 1 /\ Given.Type \notin StoreTypes

\* a host name handed to net.LookupIP did not resolve
LookupFailed ==
    \E n \in 1..Len(trace.lookups) : env.dns[trace.lookups[n]].err # Nil

CachingCase ==
    Called /\ err = Nil /\ Given.CacheHostnames /\ Given.Scheme # "mongodb+srv"

\* the host list with every name replaced in place by its addresses and
\* every IP literal kept
RECURSIVE Resolved(_)
Resolved(hs) ==
    IF Len(hs) = 0 THEN << >>
    ELSE (IF hs[1] \in IPLiterals THEN <<hs[1]>> ELSE env.dns[hs[1]].ips)
            \o Resolved(Tail(hs))

\* C13: with cache_hostnames and a scheme other than mongodb+srv the probe
\* is handed the configured hosts with every name replaced in place by its
\* addresses and every IP literal kept.
C13_CachedHostList ==
    CachingCase =>
        \A i \in 1..Len(jobs) :
            jobs[i].config.Hosts = Resolved(trace.given[i].Hosts)

\* C13 for host lists without IP literal
C13_NamesOnly ==
    CachingCase =>
        \A i \in 1..Len(jobs) :
            (\A n \in 1..Len(trace.given[i].Hosts) :
                    trace.given[i].Hosts[n] \notin IPLiterals) =>
                jobs[i].config.Hosts = Resolved(trace.given[i].Hosts)

\* the probe of Job i takes a host list
TakesHostList(i) == jobs[i].driver.type # JOB_TYPE_MYSQL

\* C14: with cache_hostnames and scheme mongodb+srv nothing is resolved and
\* the probe receives the configured hosts; with another scheme and hosts
\* [db.internal] resolving to [10.0.0.5] it receives [10.0.0.5].
C14_SrvSchemeSkipsCaching ==
    Called =>
        /\ (Given.CacheHostnames /\ Given.Scheme = "mongodb+srv") =>
                /\ trace.lookups = << >>
                /\ err = Nil =>
                    \A i \in 1..Len(jobs) :
                        /\ jobs[i].config.Hosts = trace.given[i].Hosts
                        /\ TakesHostList(i) =>
                                jobs[i].driver.hosts = trace.given[i].Hosts
        /\ (Given.CacheHostnames /\ Given.Scheme # "mongodb+srv" /\ err = Nil) =>
                \A i \in 1..Len(jobs) :
                    (/\ trace.given[i].Hosts = <<(<<"db.internal">>)>>
                     /\ env.dns[<<"db.internal">>].ips = <<(<<"10.0.0.5">>)>>) =>
                        /\ jobs[i].config.Hosts = <<(<<"10.0.0.5">>)>>
                        /\ jobs[i].driver.hosts = <<(<<"10.0.0.5">>)>>

C14_Witness ==
    /\ Called /\ err = Nil /\ Given.CacheHostnames /\ Given.Scheme = "mongodb+srv"
    /\ Given.Type = JOB_TYPE_MONGODB /\ Len(jobs) = 1
    /\ jobs[1].driver.hosts = <<(<<"db.internal">>)>>
    /\ trace.lookups = << >>

----------------------------------------------------------------------------
(* Properties of main *)

\* what NewJobs returns for the k-th JobConfig of the file
ExpansionOf(k) == NewJobs(file.Jobs[k], gcfg.JobLabelName, env)

\* main has left the loop over config.Jobs
LoopOver == mainpc \in {"running", "serving", "exit_listen"}

\* the Jobs of the k-th JobConfig are all built and their goroutines started
AllStarted(k) ==
    /\ k <= Len(hist)
    /\ hist[k].config = file.Jobs[k]
    /\ hist[k].n = Len(ExpansionOf(k).jobs)
    /\ \A m \in 1..hist[k].n :
        /\ hist[k].first + m - 1 \in DOMAIN pc
        /\ jobs[hist[k].first + m - 1] = ExpansionOf(k).jobs[m]

\* C16: once main has left the loop, every JobConfig whose expansion
\* succeeds has all its Jobs started, whatever JobConfigs before or after it
\* failed; a failed expansion starts nothing and the loop goes on.
C16_ValidJobSpecsStarted ==
    /\ LoopOver => Len(hist) = Len(file.Jobs)
    /\ \A k \in 1..Len(hist) :
        /\ hist[k].err = ExpansionOf(k).err
        /\ hist[k].err = Nil => hist[k].n >= 1 /\ AllStarted(k)
        /\ hist[k].err # Nil => hist[k].n = 0

C16_Witness ==
    /\ mainpc = "serving" /\ Len(hist) = 2
    /\ hist[1].err # Nil /\ hist[2].err = Nil /\ AllStarted(2)
    /\ pc[1] = "sleeping"

InvalidJobSpec(c) == c.Name = << >> \/ c.QueryType \notin QueryTypes

HasInvalidJobSpec == \E k \in 1..Len(file.Jobs) : InvalidJobSpec(file.Jobs[k])

ExitCauses ==
    /\ mainpc = "exit_config" => ~file.ok \/ HasInvalidJobSpec
    /\ mainpc = "exit_loglevel" => file.LogLevel \notin LogLevels
    /\ mainpc = "exit_logformat" => file.LogFormat \notin LogFormats
    /\ mainpc = "exit_nojob" => file.Jobs = << >>
    /\ mainpc = "exit_listen" => Len(hist) = Len(file.Jobs)

\* no Job runs when every expansion failed
NoJobWhenAllFail ==
    (LoopOver /\ \A k \in 1..Len(file.Jobs) : ExpansionOf(k).err # Nil) =>
        jobs = << >> /\ pc = << >>

\* C18: the process terminates only on a configuration that cannot be
\* loaded, an invalid log level or format, zero jobs, or the listener
\* failing: no expansion failure and no outcome of a Job's cycle ends it,
\* and with every expansion failed it serves with no Job running.
C18_ProcessFatalConditions ==
    /\ ~crashed
    /\ ExitCauses
    /\ NoJobWhenAllFail

\* C18 for configurations whose Jobs carry no user label
C18_WithoutUserLabels ==
    (\A k \in 1..Len(file.Jobs) : file.Jobs[k].Labels = << >>) =>
        ~crashed /\ ExitCauses /\ NoJobWhenAllFail

\* the process serves the endpoint although every expansion failed
C18_ServesWithoutJob ==
    /\ mainpc = "serving" /\ Len(file.Jobs) = 2 /\ pc = << >>
    /\ \A k \in 1..2 : hist[k].err # Nil

----------------------------------------------------------------------------
(* Properties of the Run loops *)

\* the cycles Job i has begun: the completed ones and the one under way
Begun(i) ==
    IF i \in DOMAIN pc
    THEN done[i].cycles +
            (IF pc[i] \in {"connected", "readDone", "queried", "panic", "hung"}
             THEN 1 ELSE 0)
    ELSE 0

\* the cycles Job i has completed
Completed(i) == IF i \in DOMAIN pc THEN done[i].cycles ELSE 0

\* a probe operation of Job i does not return
Hung(i) == i \in DOMAIN pc /\ pc[i] = "hung"

HasUserLabels == cfg.Labels # << >>

\* C19: whatever the outcome of its cycles, a started Job whose probe
\* operations all return invokes Connect again after every cycle: it begins
\* every cycle up to MaxCycles.
C19_LoopNeverEnds ==
    \A i \in JobIds : [](i \in DOMAIN pc => <>(Begun(i) >= MaxCycles))

\* C19 for Jobs without user labels
C19_WithoutUserLabels ==
    \A i \in JobIds :
        []((i \in DOMAIN pc /\ ~HasUserLabels) => <>(Begun(i) >= MaxCycles))

\* C20: whatever probe operation of another Job never returns, a started
\* Job whose own operations return completes every cycle up to MaxCycles.
C20_JobsDoNotBlock ==
    \A i \in JobIds :
        [](i \in DOMAIN pc => <>(Hung(i) \/ Completed(i) >= MaxCycles))

\* C20 for Jobs without user labels
C20_WithoutUserLabels ==
    \A i \in JobIds :
        []((i \in DOMAIN pc /\ ~HasUserLabels) =>
                <>(Hung(i) \/ Completed(i) >= MaxCycles))

\* a Job completed its cycles while the other one hangs
C20_HungNeighbour ==
    /\ Len(pc) = 2 /\ pc[1] = "hung" /\ done[1].cycles = 0
    /\ done[2].cycles = MaxCycles

----------------------------------------------------------------------------
(* Properties of the counters under concurrent Jobs *)

Counters == {"failures", "jobs", "queries"}

\* the increments of counter m with label set l that Jobs 1..n issued
RECURSIVE IssuedUpTo(_, _, _)
IssuedUpTo(n, m, l) ==
    IF n = 0 THEN 0
    ELSE IssuedUpTo(n - 1, m, l) +
            (IF jobs[n].labels = l THEN done[n].issued[m] ELSE 0)

Issued(m, l) == IssuedUpTo(Len(pc), m, l)

\* every series holds the increments issued to it, and every Job's
\* increments are in a series
NoLostIncrement ==
    \A m \in Counters :
        /\ \A l \in DOMAIN sink[m] : sink[m][l] = Issued(m, l)
        /\ \A i \in DOMAIN pc :
            done[i].issued[m] > 0 => jobs[i].labels \in DOMAIN sink[m]

\* no series disappears or decreases in a step
NoDecrease ==
    \A m \in Counters : \A l \in DOMAIN sink[m] :
        l \in DOMAIN sink'[m] /\ sink'[m][l] >= sink[m][l]

\* C21: under every interleaving of the Jobs' steps each counter series
\* equals the number of increments issued to it by all the Jobs, Jobs with
\* the same label set included, and no counter decreases.
C21_IncrementsNeverLost == [][NoLostIncrement' /\ NoDecrease]_vars

\* two Jobs with one label set have both incremented the same series
C21_Witness ==
    /\ Len(pc) = 2 /\ jobs[1].labels = jobs[2].labels
    /\ done[1].issued.queries >= 2 /\ done[2].issued.queries >= 2
    /\ done[1].issued.failures = 1 /\ done[2].issued.jobs = 1
    /\ sink.queries[jobs[1].labels] =
            done[1].issued.queries + done[2].issued.queries

----------------------------------------------------------------------------
(* Properties of Consul discovery *)

\* the metadata fields requested: return_metas, or else return_meta
Requested ==
    IF consul.opts.ReturnMetas # << >> THEN consul.opts.ReturnMetas
    ELSE IF consul.opts.ReturnMeta # "" THEN <<consul.opts.ReturnMeta>>
    ELSE << >>

\* the nodes of the catalog the discovery read
Catalog ==
    LET up == {k \in 1..Len(consul.answers) : consul.answers[k].err = Nil}
    IN consul.answers[CHOOSE k \in up : \A k2 \in up : k <= k2].nodes

\* the metadata values present, as (node index, field index) positions in
\* catalog order and, within a node, in the order of the requested fields
Positions ==
    {p \in (1..Len(Catalog)) \X (1..Len(Requested)) :
        Requested[p[2]] \in DOMAIN Catalog[p[1]].Meta}

ValueAt(p) == Catalog[p[1]].Meta[Requested[p[2]]]

Before(p, q) == p[1] < q[1] \/ (p[1] = q[1] /\ p[2] < q[2])

\* the position where value v is seen first
FirstSeen(v) ==
    CHOOSE p \in Positions :
        ValueAt(p) = v /\ \A q \in Positions : ValueAt(q) = v => ~Before(q, p)

DiscoverySucceeded == consul.called /\ consul.err = Nil

\* C22: with metadata fields requested Discover returns the distinct values
\* found, over the nodes in catalog order and the fields in configured
\* order, in first-seen order and without duplicate; with no field
\* requested it returns the address of every node, duplicates included.
C22_DiscoverMetas ==
    DiscoverySucceeded =>
        IF Requested # << >>
        THEN /\ {consul.hosts[k] : k \in 1..Len(consul.hosts)} =
                    {ValueAt(p) : p \in Positions}
             /\ \A a, b \in 1..Len(consul.hosts) :
                    a < b => /\ consul.hosts[a] # consul.hosts[b]
                             /\ Before(FirstSeen(consul.hosts[a]),
                                       FirstSeen(consul.hosts[b]))
        ELSE /\ Len(consul.hosts) = Len(Catalog)
             /\ \A k \in 1..Len(Catalog) : consul.hosts[k] = Catalog[k].Address

\* two nodes, the second repeating a value of the first and lacking nothing
C22_Witness ==
    /\ DiscoverySucceeded /\ Len(Requested) = 2 /\ Len(Catalog) = 2
    /\ Cardinality(Positions) = 3
    /\ Len(consul.hosts) = 2
    /\ consul.opts.ReturnMeta # ""

----------------------------------------------------------------------------
(* Properties of single-host stores *)

MultipleHosts == "multiple hosts detected for mysql"

\* a mysql JobConfig whose host set has more than one host
MysqlManyHosts ==
    Called /\ Given.Type = JOB_TYPE_MYSQL /\ Len(trace.hosts) > 1

\* NewJob resolves the host names of the JobConfig
Caching == Given.CacheHostnames /\ Given.Scheme # "mongodb+srv"

\* C23 as claimed: such a JobConfig fails with the multiple-hosts error and
\* no Job when job_per_host is false, and yields one mysql Job per host,
\* each given that host, when it is true.
C23_MysqlHosts ==
    MysqlManyHosts =>
        IF ~Given.JobPerHost
        THEN err = MultipleHosts /\ jobs = << >>
        ELSE /\ err = Nil /\ Len(jobs) = Len(trace.hosts)
             /\ \A i \in 1..Len(jobs) :
                    /\ trace.given[i].Hosts = <<trace.hosts[i]>>
                    /\ Len(jobs[i].driver.hosts) = 1

\* what the code does for such a JobConfig: without hostname caching it is
\* as claimed; with it the test is made on the host list the caching
\* leaves, so the error may be the lookup's, a Job is built when at most
\* one host is left, and a per-host expansion fails when a host resolves to
\* several addresses.
C23_MysqlHostsAfterCaching ==
    MysqlManyHosts =>
        /\ err # Nil => jobs = << >>
        /\ err \in {Nil, MultipleHosts} \/ (Caching /\ LookupFailed)
        /\ \A i \in 1..Len(jobs) :
                /\ jobs[i].driver.type = JOB_TYPE_MYSQL
                /\ Len(jobs[i].config.Hosts) <= 1
                /\ jobs[i].driver.hosts = jobs[i].config.Hosts
        /\ ~Given.JobPerHost =>
                /\ Len(trace.given) = 1 /\ trace.given[1].Hosts = trace.hosts
                /\ ~Caching => err = MultipleHosts
                /\ err = Nil => Len(jobs) = 1
        /\ Given.JobPerHost =>
                /\ \A i \in 1..Len(trace.given) :
                        trace.given[i].Hosts = <<trace.hosts[i]>>
                /\ err = Nil => Len(jobs) = Len(trace.hosts)
                /\ ~Caching =>
                        /\ err = Nil
                        /\ \A i \in 1..Len(jobs) :
                                jobs[i].driver.hosts = <<trace.hosts[i]>>
                /\ err = MultipleHosts =>
                        /\ Caching
                        /\ Len(env.dns[trace.lookups[Len(trace.lookups)]].ips) > 1

\* one mysql Job per host
C23_OneJobPerHost ==
    /\ MysqlManyHosts /\ Given.JobPerHost /\ ~Caching
    /\ err = Nil /\ Len(jobs) = 2
    /\ jobs[2].driver.hosts = <<trace.hosts[2]>>

\* the per-host expansion refused for a name with two addresses
C23_PerHostRefused ==
    /\ MysqlManyHosts /\ Given.JobPerHost /\ Caching
    /\ err = MultipleHosts /\ jobs = << >>


----------------------------------------------------------------------------
(* Properties of the steps of one cycle *)

\* the k-th probe call of the current cycle of Job i was op with outcome ok
Call(i, k, op, ok) ==
    Len(calls[i]) >= k /\ calls[i][k] = [op |-> op, ok |-> ok]

ReadFailed(i) ==
    /\ jobs[i].config.QueryType = QUERY_TYPE_READ_WRITE
    /\ Call(i, 1, "Connect", TRUE) /\ Call(i, 2, "Read", FALSE)

WriteFailedAfterRead(i) ==
    /\ jobs[i].config.QueryType = QUERY_TYPE_READ_WRITE
    /\ Call(i, 1, "Connect", TRUE) /\ Call(i, 2, "Read", TRUE)
    /\ Call(i, 3, "Write", FALSE)

\* C26: in a read_write cycle where Connect succeeds and Read fails, neither
\* Write nor Disconnect is invoked, the one observation is connect, the query
\* counter grows by 2 and the failure and job counters by 1 each; where Read
\* succeeds and Write fails, Disconnect is not invoked, the observations are
\* connect and read, and the query counter grows by 3.
C26_ReadWriteAborts ==
    Started =>
        \A i \in J :
            /\ ReadFailed(i) =>
                /\ Ops(i) = <<"Connect", "Read">>
                /\ Phases(i) = <<"connect">>
                /\ cyc[i].q = 2 /\ cyc[i].f = 1 /\ cyc[i].j = 1
                /\ CycleCompleted(i) \/ pc[i] = "idle"
            /\ WriteFailedAfterRead(i) =>
                /\ Ops(i) = <<"Connect", "Read", "Write">>
                /\ Phases(i) = <<"connect", "read">>
                /\ cyc[i].q = 3
                /\ CycleCompleted(i) \/ pc[i] = "idle"

C26_Witness ==
    Started /\ Len(jobs) = 2
        /\ ReadFailed(1) /\ CycleCompleted(1)
        /\ WriteFailedAfterRead(2) /\ CycleCompleted(2)

UnknownType(i) ==
    jobs[i].config.QueryType \notin
        {QUERY_TYPE_READ, QUERY_TYPE_WRITE, QUERY_TYPE_READ_WRITE}

\* the Disconnect calls among the probe calls of the current cycle of Job i
Disconnects(i) == {k \in 1..Len(calls[i]) : calls[i][k].op = "Disconnect"}

\* C27: in a cycle with an unknown query type whose Connect succeeds, neither
\* Read nor Write is invoked, Disconnect is invoked exactly once, the failure
\* counter grows by 1, no disconnect duration is observed, the job counter
\* grows by exactly 1 with no success counted, and the counters of the cycle
\* are the same whether that Disconnect succeeds or fails.
C27_UnknownQueryType ==
    Started =>
        \A i \in J :
            (UnknownType(i) /\ Call(i, 1, "Connect", TRUE) /\ pc[i] # "connected") =>
                /\ Ops(i) = <<"Connect", "Disconnect">>
                /\ Phases(i) = <<"connect">>
                /\ cyc[i].f = 1 /\ cyc[i].j = 1 /\ cyc[i].q = 2
                /\ done[i].succ = 0

\* C27 for the Jobs whose JobConfig has no user-defined label
C27_WithoutUserLabels ==
    Started =>
        \A i \in J :
            (/\ UnknownType(i) /\ Call(i, 1, "Connect", TRUE) /\ pc[i] # "connected"
             /\ DOMAIN cfg.Labels = {}) =>
                /\ Ops(i) = <<"Connect", "Disconnect">>
                /\ Phases(i) = <<"connect">>
                /\ cyc[i].f = 1 /\ cyc[i].j = 1 /\ cyc[i].q = 2
                /\ done[i].succ = 0

\* both outcomes of the ignored Disconnect, with the same counters
C27_BothOutcomes ==
    Started /\ Len(jobs) = 2 /\ UnknownType(1)
        /\ CycleCompleted(1) /\ CycleCompleted(2)
        /\ calls[1] = <<[op |-> "Connect", ok |-> TRUE], [op |-> "Disconnect", ok |-> TRUE]>>
        /\ calls[2] = <<[op |-> "Connect", ok |-> TRUE], [op |-> "Disconnect", ok |-> FALSE]>>
        /\ cyc[1] = cyc[2]

\* the probe calls of a cycle of Job i that reaches the timed Disconnect
StepsBeforeDisconnect(i) ==
    CASE jobs[i].config.QueryType = QUERY_TYPE_READ -> <<"Connect", "Read">>
      [] jobs[i].config.QueryType = QUERY_TYPE_WRITE -> <<"Connect", "Write">>
      [] OTHER -> <<"Connect", "Read", "Write">>

TimedDisconnect(i) == ~UnknownType(i) /\ Disconnects(i) # {}

\* the state part of C28
DisconnectOutcome ==
    Started =>
        \A i \in J :
            TimedDisconnect(i) =>
                /\ Ops(i) = Append(StepsBeforeDisconnect(i), "Disconnect")
                /\ \A k \in 1..(Len(calls[i]) - 1) : calls[i][k].ok
                /\ IF calls[i][Len(calls[i])].ok
                   THEN /\ Phases(i)[Len(Phases(i))] = "disconnect"
                        /\ Len(Phases(i)) = Len(calls[i])
                        /\ cyc[i].q = Len(calls[i])
                        /\ cyc[i].j = 1 /\ cyc[i].f = 0
                   ELSE /\ \A k \in 1..Len(Phases(i)) : Phases(i)[k] # "disconnect"
                        /\ cyc[i].f = 1 /\ cyc[i].j = 1

\* the step part of C28: the job counter of a cycle never grows in a step
\* with a successful timed Disconnect unless the disconnect duration and the
\* query counter grew in it
JobCounterLast ==
    (Started /\ Started') =>
        \A i \in J :
            (/\ ~UnknownType(i)
             /\ Len(calls'[i]) = Len(calls[i]) + 1
             /\ calls'[i][Len(calls'[i])] = [op |-> "Disconnect", ok |-> TRUE]
             /\ cyc'[i].j > cyc[i].j) =>
                /\ cyc'[i].q = cyc[i].q + 1
                /\ cyc'[i].obs # cyc[i].obs
                /\ cyc[i].j = 0

\* C28: the timed Disconnect is invoked only after Connect and every
\* read/write step of the cycle succeeded; if it fails the failure counter
\* grows by 1, no disconnect duration is observed and the job counter grows
\* by exactly 1; if it succeeds the disconnect duration is observed, the
\* query counter is incremented and then the job counter.
C28_TimedDisconnect == []DisconnectOutcome /\ [][JobCounterLast]_vars

C28_Witness ==
    Started /\ Len(jobs) = 2
        /\ TimedDisconnect(1) /\ ~calls[1][Len(calls[1])].ok /\ CycleCompleted(1)
        /\ TimedDisconnect(2) /\ calls[2][Len(calls[2])].ok /\ CycleCompleted(2)


----------------------------------------------------------------------------
(* Properties of the probe timeouts *)

\* Job i is inside Measure: its cycle began and has not reached the sleep
InCycle(i) == i \in DOMAIN pc /\ pc[i] \notin {"idle", "sleeping"}

Asleep(i) == i \in DOMAIN pc /\ pc[i] = "sleeping"

\* every probe was built with the configured timeout, 3 when it is zero
TimeoutDefaulted ==
    \A i \in J :
        jobs[i].driver.timeout = IF jobs[i].config.Timeout = 0 THEN 3
                                 ELSE jobs[i].config.Timeout

\* C30: every probe operation of every driver is bounded by the configured
\* timeout, 3 when unset or zero, so every started cycle eventually finishes
\* and reaches the sleep step, even when the remote store never answers.
C30_CyclesFinish ==
    /\ []TimeoutDefaulted
    /\ \A i \in JobIds : [](InCycle(i) => <>Asleep(i))

\* C30 for the drivers whose every wait is under a deadline
C30_DeadlineDrivers ==
    /\ []TimeoutDefaulted
    /\ \A i \in JobIds :
        []((InCycle(i) /\ cfg.Type \notin {JOB_TYPE_MYSQL, JOB_TYPE_MONGODB})
            => <>Asleep(i))

\* a Mysql Job waits in its first Connect
C30_MysqlConnectWaits ==
    /\ Len(jobs) = 1 /\ Len(pc) = 1 /\ jobs[1].driver.type = JOB_TYPE_MYSQL
    /\ pc[1] = "hung" /\ calls[1] = << >> /\ jobs[1].driver.timeout = 3


----------------------------------------------------------------------------
(* Properties of the SQL probes *)

Stmts == [k \in 1..Len(probe.log) |-> probe.log[k].stmt]

\* the statements of the last operation after the first that the store failed
NoFaultAfterFirst ==
    \A k \in 2..Len(probe.log) : probe.log[k].err # "connection lost"

\* the last operation was a Postgresql Read that found the table missing
ReadFoundNoTable ==
    /\ probe.type = JOB_TYPE_POSTGRESQL /\ probe.op = "Read"
    /\ probe.log[1] = [stmt |-> "select", err |-> POSTGRESQL_TABLE_NOT_FOUND_ERROR_SUFFIX]

\* C25: with create enabled, a Postgresql Read that finds the table missing
\* creates the table, inserts the row and returns success provided the
\* creation and the insert succeed; with create disabled the same Read returns
\* the error and creates nothing.
C25_CreateOnRead ==
    ReadFoundNoTable =>
        IF probe.opts.Create
        THEN NoFaultAfterFirst =>
                /\ Stmts = <<"select", "insert", "create", "insert">>
                /\ probe.log[3].err = Nil /\ probe.log[4].err = Nil
                /\ probe.err = Nil
                /\ probe.db = [table |-> TRUE, row |-> TRUE]
        ELSE /\ probe.err = POSTGRESQL_TABLE_NOT_FOUND_ERROR_SUFFIX
             /\ Stmts = <<"select">>
             /\ probe.db = probe.before /\ ~probe.db.table

C25_Witness ==
    /\ ReadFoundNoTable /\ probe.opts.Create /\ NoFaultAfterFirst
    /\ probe.err = Nil /\ probe.db.table /\ ~probe.before.table

\* create disabled: the Read returned the error and the table is still missing
C25_NothingCreated ==
    /\ ReadFoundNoTable /\ ~probe.opts.Create
    /\ probe.err # Nil /\ ~probe.db.table

\* the inserts among the statements of the last operation
Inserts == {k \in 1..Len(probe.log) : probe.log[k].stmt = "insert"}

\* the last operation was a Write whose last insert failed, or that sent no
\* insert after the failed one
WriteFailed ==
    /\ probe.op = "Write"
    /\ \E k \in Inserts :
        /\ probe.log[k].err # Nil
        /\ \A m \in Inserts : m > k => probe.log[m].err # Nil

\* C29: whenever the insert of a Postgresql, Mysql or Clickhouse Write fails
\* and the failure is not repaired by creating the table, Write returns a
\* non-nil error.
C29_FailedWriteReported == WriteFailed => probe.err # Nil

\* the failures the Write does report: those of the repair
C29_RepairFailureReported ==
    (WriteFailed /\ Len(probe.log) > 1) => probe.err # Nil

\* a Write whose only insert failed and that returned nil
C29_FailedWriteSilent ==
    /\ WriteFailed /\ probe.err = Nil
    /\ probe.log = <<[stmt |-> "insert", err |-> "connection lost"]>>


----------------------------------------------------------------------------
(* Properties of the connection URI *)

\* a probe was built from options with a DSN
BuiltWithDSN == probe.built /\ probe.err = Nil /\ probe.opts.DSN # << >>

\* C24: when a DSN is supplied to the Postgresql or Mongodb probe, the
\* connection URI it uses is exactly that DSN, whatever the hosts, port,
\* username, password, database and TLS options are.
C24_DSNUsedExactly == BuiltWithDSN => probe.uri = probe.opts.DSN

\* the options with everything but the DSN and the required names unset
Bare(type, opts) ==
    IF type = JOB_TYPE_MONGODB
    THEN [opts EXCEPT !.Hosts = << >>, !.Scheme = "", !.ReplicaSet = << >>,
                      !.TLS = FALSE, !.TLSInsecure = FALSE]
    ELSE [opts EXCEPT !.Hosts = << >>, !.Port = << >>, !.Username = << >>,
                      !.Password = << >>, !.Database = << >>, !.SSLMode = ""]

\* with a DSN the options shape neither the URI nor the error
C24_OptionsIgnoredWithDSN ==
    (probe.built /\ probe.opts.DSN # << >>) =>
        LET r == ProbeURI(probe.type, Bare(probe.type, probe.opts))
        IN probe.uri = r.uri /\ probe.err = r.err

\* the DSNs of the tests are used as they are
C24_TestDSNsUnchanged ==
    (probe.built /\ Len(probe.opts.DSN) > 0
        /\ probe.opts.DSN[1] \in {"postgres", "mongodb"}
        /\ ~(probe.type = JOB_TYPE_MONGODB /\ probe.opts.Database = << >>)) =>
            probe.err = Nil /\ probe.uri = probe.opts.DSN

\* a keyword/value DSN with hosts and a user name set: the URI is the DSN
\* with its space escaped
C24_SpaceEscaped ==
    /\ BuiltWithDSN /\ probe.type = JOB_TYPE_POSTGRESQL
    /\ probe.opts.DSN = <<"host=127.0.0.1", " ", "user=canary">>
    /\ probe.uri = <<"host=127.0.0.1", "%20", "user=canary">>
    /\ probe.opts.Hosts # << >> /\ probe.opts.Username # << >>

\* a DSN with two hosts is refused
C24_TwoHostsRefused ==
    /\ probe.built /\ probe.err = "invalid port after host"
    /\ probe.opts.DSN # << >>

----------------------------------------------------------------------------
(* Properties of the sleep between two cycles *)

\* the time the claim says Job i sleeps after each cycle: the configured
\* interval, 1 when it is zero
Pause(i) ==
    LET c == file.Jobs[1].Interval IN IF c = 0 THEN JOB_INTERVAL ELSE c

\* Job i stands before a Connect
BeforeConnect(i) == i \in DOMAIN pc /\ pc[i] = "idle"

\* C31: after every cycle, also one aborted by a failure at any phase, the
\* Job sleeps for its interval (1 when the configured interval is zero)
\* before the next Connect: whenever a Job stands before a Connect it has
\* slept once for its interval after each of its cycles, and it has slept
\* for some time after a cycle, so that no failure is retried immediately.
C31_SleepBetweenConnects ==
    \A i \in J : BeforeConnect(i) =>
        /\ done[i].slept = done[i].cycles * Pause(i)
        /\ done[i].cycles > 0 => done[i].slept > 0

\* the same for the Jobs whose configured interval is not negative
C31_NonNegativeInterval ==
    \A i \in J : (BeforeConnect(i) /\ file.Jobs[1].Interval >= 0) =>
        /\ jobs[i].config.Interval = Pause(i)
        /\ done[i].slept = done[i].cycles * Pause(i)
        /\ done[i].cycles > 0 => done[i].slept > 0

\* a Job with a zero interval that failed a cycle, slept for 1 and failed
\* to connect again
C31_SleptThenRetried ==
    \E i \in DOMAIN pc :
        /\ file.Jobs[1].Interval = 0 /\ done[i].cycles = 2 /\ done[i].slept = 1
        /\ done[i].fcalls = 2 /\ ConnectFailed(i)

\* a Job with a negative interval whose failed Connect was retried at once
C31_ImmediateRetry ==
    \E i \in DOMAIN pc :
        /\ file.Jobs[1].Interval < 0 /\ done[i].cycles = 2 /\ done[i].slept = 0
        /\ done[i].fcalls = 2 /\ ConnectFailed(i)

----------------------------------------------------------------------------
(* Properties of the connections of a probe *)

\* C33: a Job's probe never holds more than one open connection: every
\* connection opened by a successful Connect is closed by a Disconnect
\* before the same Job's next Connect, after any sequence of successful and
\* failed cycles.
C33_OneOpenConnection ==
    \A i \in DOMAIN pc :
        /\ done[i].open <= 1
        /\ BeforeConnect(i) => done[i].open = 0

\* a Job none of whose cycles failed stands before a Connect with every
\* connection closed
C33_ClosedWithoutFailure ==
    \A i \in DOMAIN pc :
        (BeforeConnect(i) /\ done[i].fcalls = 0) => done[i].open = 0

\* a cycle aborted by a failed Read or Write called no Disconnect and left
\* its connection open
C33_LeftOpen ==
    \E i \in DOMAIN pc :
        /\ pc[i] = "sleeping" /\ done[i].open = 1
        /\ Call(i, 1, "Connect", TRUE) /\ Call(i, 2, "Read", FALSE)
        /\ Len(calls[i]) = 2

\* the Connect of the next cycle opened a second connection
C33_TwoConnections ==
    \E i \in DOMAIN pc :
        /\ done[i].open = 2 /\ done[i].cycles = 1
        /\ calls[i] = <<[op |-> "Connect", ok |-> TRUE]>>

----------------------------------------------------------------------------
(* Properties of ObserveDuration *)

\* ObserveDuration was called; the phase of the last call
Observed == probe.type = "observe" /\ Len(probe.phases) > 0

LastPhase == probe.phases[Len(probe.phases)]

\* the value configured for a phase
PhaseValue(q) ==
    CASE q = QUERY_TYPE_CONNECT -> gcfg.QueryLabels.ConnectValue
      [] q = QUERY_TYPE_READ -> gcfg.QueryLabels.ReadValue
      [] q = QUERY_TYPE_WRITE -> gcfg.QueryLabels.WriteValue
      [] q = QUERY_TYPE_DISCONNECT -> gcfg.QueryLabels.DisconnectValue
      [] OTHER -> ""

\* the duration series the last call observed into
Grown == {l \in DOMAIN sink.duration : sink.duration[l] > Val(probe.before.duration, l)}

\* C32: ObserveDuration called with a phase other than connect, read, write,
\* disconnect records no histogram observation; for the four known phases
\* the observation's phase label is the configured value for that phase, and
\* the Job's own label set is not modified by the call.
C32_ObserveDuration ==
    Observed =>
        /\ PhaseValue(LastPhase) = "" => (sink = probe.before /\ ~crashed)
        /\ \A l \in Grown :
              /\ l[gcfg.QueryLabels.Name] = PhaseValue(LastPhase)
              /\ sink.duration[l] = Val(probe.before.duration, l) + 1
        /\ Cardinality(Grown) <= 1
        /\ jobs[1].labels = probe.labels
        /\ sink.failures = << >> /\ sink.jobs = << >> /\ sink.queries = << >>

\* a read observed under the value the configuration file gives to reads,
\* after a call with a phase that is none of the four, by a Job whose own
\* labels are the job name alone
C32_Witness ==
    /\ Observed /\ probe.phases = <<QUERY_TYPE_READ_WRITE, QUERY_TYPE_READ>>
    /\ gcfg.QueryLabels.ReadValue = "r"
    /\ DOMAIN jobs[1].labels = {"job_name"}
    /\ sink.duration = ((jobs[1].labels @@ ("phase" :> "r")) :> 1)

\* a user label with the name of the query label is overwritten in the
\* observation and kept by the Job
C32_UserLabelKept ==
    /\ Observed /\ ~crashed /\ LastPhase = QUERY_TYPE_CONNECT
    /\ jobs[1].labels["job_name"] = Name0
    /\ "query" \in DOMAIN jobs[1].labels /\ jobs[1].labels["query"] = <<"select">>
    /\ \E l \in Grown : l["query"] = QUERY_TYPE_CONNECT

----------------------------------------------------------------------------
(* Properties of the query type of the running Jobs *)

\* C34: for every Job created from a configuration accepted by NewConfig,
\* the query type is one of read, write, read_write and never changes, so
\* the unrecognized-query-type branch of Measure is never taken in any cycle
\* of any running Job.
C34_QueryTypeKnown ==
    /\ [](\A i \in J :
            /\ jobs[i].config.QueryType \in
                  {QUERY_TYPE_READ, QUERY_TYPE_WRITE, QUERY_TYPE_READ_WRITE}
            /\ ~ENABLED UnknownQueryType(i))
    /\ [][\A i \in J : jobs'[i].config.QueryType = jobs[i].config.QueryType]_vars

\* a Job of an accepted configuration file went through the switch of
\* Measure in its second cycle, next to a Job of another query type
C34_Witness ==
    /\ Started /\ Len(file.Jobs) = 2 /\ Len(pc) = 2
    /\ jobs[1].config.QueryType # jobs[2].config.QueryType
    /\ \E i \in DOMAIN pc :
        /\ jobs[i].config.QueryType = QUERY_TYPE_READ_WRITE
        /\ done[i].cycles = 1
        /\ Ops(i) = <<"Connect", "Read", "Write">> /\ AllOk(i)

----------------------------------------------------------------------------
(* Properties of a per-host expansion that fails *)

\* the NewJob of a host after the first returned an error: NewJobs had
\* built a probe for each earlier host
LaterHostFailed ==
    /\ PerHostCase /\ err # Nil
    /\ Len(trace.given) > 1

\* the call of NewJobs the k-th turn of main's loop made
PerHostFailed(k) == hist[k].config.JobPerHost /\ hist[k].err # Nil

\* C35: per-host expansion is all-or-nothing: with job_per_host=true, if
\* building the Job for any one host fails, NewJobs returns an error and no
\* Job at all, so none of the Jobs already built for earlier hosts of that
\* JobSpec is started.
C35_AllOrNothing ==
    /\ (mainpc = "expanded" /\ PerHostCase /\ Len(jobs) > Len(pc)) =>
            /\ err = Nil
            /\ Len(jobs) - Len(pc) = Len(trace.hosts)
    /\ (mainpc = "expanded" /\ PerHostCase /\ err # Nil) => Len(jobs) = Len(pc)
    /\ \A k \in 1..Len(hist) : PerHostFailed(k) => hist[k].n = 0

\* main went past a per-host JobConfig whose second host failed after a
\* probe was built for the first: no goroutine was started for it, the Job
\* of the next JobConfig runs
C35_Witness ==
    /\ Len(hist) = 2 /\ PerHostFailed(1) /\ hist[1].n = 0
    /\ Len(hist[1].config.Hosts) = 2
    /\ hist[2].err = Nil /\ hist[2].n = 1 /\ hist[2].first = 1
    /\ Len(pc) = 1 /\ pc[1] = "connected"

\* the same in NewJobs alone, whatever the resolver answers
C35_NoJobReturned == LaterHostFailed => jobs = << >>

----------------------------------------------------------------------------
(* Properties of the query counter *)

\* the duration observations recorded for Job i: the observations of the
\* series with the Job's labels and one of the four phase values
Observations(i) ==
    LET ql == gcfg.QueryLabels
        At(v) == Val(sink.duration,
                     [k \in (DOMAIN jobs[i].labels) \cup {ql.Name} |->
                         IF k = ql.Name THEN v ELSE jobs[i].labels[k]])
    IN At(ql.ConnectValue) + At(ql.ReadValue) + At(ql.WriteValue)
        + At(ql.DisconnectValue)

QueryCounter(i) ==
    /\ Val(sink.queries, jobs[i].labels) =
            Observations(i) + Val(sink.failures, jobs[i].labels)
    /\ cyc[i].q = Len(calls[i])

\* C36: after any sequence of cycles of a Job with its own label set, the
\* query counter equals the number of duration observations recorded for
\* that Job plus its failure counter, and in each cycle the query counter
\* increases by the number of Probe operations invoked in that cycle.
C36_QueryCounter ==
    \A i \in DOMAIN pc : OwnLabelSet(i) => QueryCounter(i)

\* C36 for the Jobs whose JobConfig has no user-defined label
C36_WithoutUserLabels ==
    \A i \in DOMAIN pc :
        (OwnLabelSet(i) /\ DOMAIN jobs[i].config.Labels = {}) => QueryCounter(i)

\* two cycles of such a Job, the first aborted by a failed Write: five
\* operations, three observations and two failures
C36_TwoCycles ==
    \E i \in DOMAIN pc :
        /\ OwnLabelSet(i) /\ DOMAIN jobs[i].config.Labels = {}
        /\ done[i].cycles = 2 /\ done[i].fcalls = 2
        /\ Val(sink.queries, jobs[i].labels) = 5 /\ Observations(i) = 3
        /\ Val(sink.failures, jobs[i].labels) = 2
        /\ Ops(i) = <<"Connect", "Read">>

\* a Job with a user label named like the query label: the connect duration
\* is observed, the query counter stays at 0
C36_ObservedNotCounted ==
    \E i \in DOMAIN pc :
        /\ OwnLabelSet(i) /\ crashed /\ pc[i] = "panic"
        /\ Observations(i) = 1 /\ Val(sink.queries, jobs[i].labels) = 0
        /\ calls[i] = <<[op |-> "Connect", ok |-> TRUE]>>

----------------------------------------------------------------------------
(* Properties of the series of the Jobs of one JobConfig *)

\* the JobConfig was expanded per host into several Jobs
SeveralPerHost == file.Jobs[1].JobPerHost /\ Len(jobs) > 1

\* the job-name labels of the Jobs are pairwise distinct
DistinctJobNames ==
    \A a, b \in J :
        a # b => jobs[a].labels[gcfg.JobLabelName] # jobs[b].labels[gcfg.JobLabelName]

\* the counter series of Job i hold the increments of Job i alone
OwnSeries(i) ==
    /\ OwnLabelSet(i)
    /\ Val(sink.queries, jobs[i].labels) = done[i].issued.queries
    /\ Val(sink.failures, jobs[i].labels) = done[i].issued.failures
    /\ Val(sink.jobs, jobs[i].labels) = done[i].issued.jobs

\* C37 as claimed: the Jobs produced from one JobSpec by per-host expansion
\* over N > 1 distinct hosts have pairwise distinct job-name label values,
\* so each Job's counters and durations form their own metric series.
C37_AlwaysDistinctJobNames ==
    SeveralPerHost => DistinctJobNames /\ \A i \in DOMAIN pc : OwnSeries(i)

\* C37 amended: with prefix_name_with_host=true the Jobs of a per-host
\* expansion over N > 1 distinct hosts have pairwise distinct job-name
\* labels and each Job's series are its own; with prefix_name_with_host=false
\* they all carry the one job-name label and label set of the JobSpec.
C37_DistinctJobNames ==
    SeveralPerHost =>
        IF file.Jobs[1].PrefixNameWithHost
        THEN DistinctJobNames /\ \A i \in DOMAIN pc : OwnSeries(i)
        ELSE \A a, b \in J : jobs[a].labels = jobs[b].labels

\* two prefixed Jobs of one JobConfig that have run, each series holding
\* the increments of its Job alone
C37_Witness ==
    /\ SeveralPerHost /\ file.Jobs[1].PrefixNameWithHost /\ Len(pc) = 2
    /\ done[1].issued.queries = 1 /\ done[2].issued.queries = 3
    /\ sink.queries[jobs[1].labels] = 1 /\ sink.queries[jobs[2].labels] = 3
    /\ jobs[1].labels["job_name"] = <<"10.0.0.1", "/", "ping">>
    /\ jobs[2].labels["job_name"] = <<"db.internal", "/", "ping">>

\* two Jobs of one JobConfig without prefix: one series for both
C37_MergedSeries ==
    /\ SeveralPerHost /\ ~file.Jobs[1].PrefixNameWithHost /\ Len(pc) = 2
    /\ jobs[1].labels = jobs[2].labels
    /\ done[1].issued.queries = 1 /\ done[2].issued.queries = 1
    /\ sink.queries[jobs[1].labels] = 2

----------------------------------------------------------------------------
(* Properties of the Consul servers queried *)

\* the configured servers that answer, by position in opts.Addresses
Answering == {k \in 1..Len(consul.answers) : consul.answers[k].err = Nil}

FirstAnswering == CHOOSE k \in Answering : \A k2 \in Answering : k <= k2

\* the values a node list can yield: addresses and metadata values
Yield(nodes) ==
    {nodes[k].Address : k \in 1..Len(nodes)} \cup
    UNION {{nodes[k].Meta[m] : m \in DOMAIN nodes[k].Meta} : k \in 1..Len(nodes)}

\* C38: Consul Discover queries the configured servers in configured order
\* and stops at the first one that answers, using only that server's node
\* list; it returns an error, and an empty host list, only when every
\* configured server fails, and a failure of an earlier server is not
\* reported when a later one answers.
C38_FirstAnsweringServer ==
    consul.called =>
        IF Answering = {}
        THEN /\ consul.err = "all consul clients failed"
             /\ consul.hosts = << >>
             /\ consul.asked = Len(consul.answers)
        ELSE /\ consul.err = Nil
             /\ consul.asked = FirstAnswering
             /\ \A k \in 1..Len(consul.hosts) :
                    consul.hosts[k] \in Yield(consul.answers[FirstAnswering].nodes)
             /\ Requested = << >> =>
                    consul.hosts = [k \in 1..Len(consul.answers[FirstAnswering].nodes) |->
                                        consul.answers[FirstAnswering].nodes[k].Address]

\* two servers fail, the third answers: its nodes are the hosts, no error
C38_Witness ==
    /\ consul.called /\ Len(consul.answers) = 3 /\ FirstAnswering = 3
    /\ consul.asked = 3 /\ consul.err = Nil
    /\ consul.hosts = <<(<<"10.0.0.2">>), (<<"10.0.0.3">>)>>

\* two servers with different catalogs answer: the second is not queried
C38_SecondNotQueried ==
    /\ consul.called /\ Len(consul.answers) = 2 /\ Answering = {1, 2}
    /\ consul.answers[1].nodes # consul.answers[2].nodes
    /\ consul.asked = 1 /\ Len(consul.hosts) > 0
    /\ consul.hosts[1] \notin Yield(consul.answers[2].nodes)

====
